---- MODULE Spec2Model ----
(***************************************************************************)
(* Run-lifecycle orchestrator of the autoreduction queue processor:        *)
(* HandleMessage (queue_processors/queue_processor/handle_message.py).     *)
(* The persisted store (runs, data locations, reduction locations,         *)
(* instruments, experiments) is the state; every handler is one action     *)
(* that runs to completion, an exception abandoning the rest of it.        *)
(***************************************************************************)
EXTENDS Integers, Sequences, FiniteSets, TLC

\* ------------------------------------------------------------------ bounds
MaxEvents == 2      \* events delivered by the broker
MaxOut == 1         \* output locations a result message may list
MaxResolves == 2    \* calls of the variable resolver
MaxPosts == 2       \* forms a client posts to configure_new_runs_post
MaxLen == 5         \* characters of a run number given to the run filter

\* --------------------------------------------------------------- constants
RbDigits == 7       \* "isn't a 7 digit integer"

StatusQueued == "q"
StatusProcessing == "p"
StatusCompleted == "c"
StatusError == "e"
StatusSkipped == "s"
Statuses == {StatusQueued, StatusProcessing, StatusCompleted, StatusError, StatusSkipped}

NoFault == "none"
InvalidStateException == "InvalidStateException"
IntegrityError == "IntegrityError"
TypeError == "TypeError"
ConfigurationFault == "ConfigurationFault"

NoText == "None"                 \* message.message is None
RbWarning == "Found non-integer RB number"
ErrorText == "reduction failed"  \* text the execution collaborator adds

\* ------------------------------------------------------------------ inputs
InstrumentNames == {"DEMO", "WISH"}
RunNumbers == {100}
DataPaths == {"/x/DEMO00100.nxs", "/x/WISH00100.nxs"}
OutPaths == {"/out/a"}
RbInputs == { <<"1", "2", "3", "4", "5", "6", "7">>, <<"1", "2", "a">> }
Texts == {NoText, ErrorText}
\* message.data: the file the instrument wrote for the run
DataFileOf == [inst \in InstrumentNames |->
                 IF inst = "DEMO" THEN "/x/DEMO00100.nxs" ELSE "/x/WISH00100.nxs"]

Yes == "yes"
No == "no"
Unasked == "unasked"
YesNo(b) == IF b THEN Yes ELSE No

VARIABLES
    instruments,   \* name -> [exists, is_active, is_paused]
    experiments,   \* reference numbers of the Experiment rows
    runs,          \* ReductionRun table, row id = index
    dataLocs,      \* DataLocation table
    redLocs,       \* ReductionLocation table
    clock,         \* events handled so far (source of utcnow)
    last,          \* what the last handled event did
    workers,       \* the event each concurrent worker is handling, and how far
    ivars,         \* InstrumentVariable table, row id = index
    resolved,      \* the last call of the variable resolver and what it returned
    merged,        \* a call of merge_arguments: its arguments, then its result
    rerun,         \* a call of find_reason_to_avoid_re_run, then its result
    confirmation,  \* a request to run_confirmation, then its context and its post
    argsTable,     \* ReductionArguments table, row id = index
    posting,       \* the configure_new_runs_post request of each client, and how far
    filtered       \* a run number given to the run filter, then what became of it

vars == <<instruments, experiments, runs, dataLocs, redLocs, clock, last, workers,
          ivars, resolved, merged, rerun, confirmation, argsTable, posting, filtered>>

\* the state of the views, which the queue processor leaves alone
viewVars == <<merged, rerun, confirmation, argsTable, posting, filtered>>

\* ------------------------------------------------------- rb number parsing
Digits == {"0", "1", "2", "3", "4", "5", "6", "7", "8", "9"}

DigitValue(ch) ==
    CASE ch = "0" -> 0 [] ch = "1" -> 1 [] ch = "2" -> 2 [] ch = "3" -> 3
      [] ch = "4" -> 4 [] ch = "5" -> 5 [] ch = "6" -> 6 [] ch = "7" -> 7
      [] ch = "8" -> 8 [] ch = "9" -> 9

RECURSIVE IntOf(_)
IntOf(s) ==
    IF Len(s) = 0 THEN 0
    ELSE 10 * IntOf(SubSeq(s, 1, Len(s) - 1)) + DigitValue(s[Len(s)])

\* validate_rb_number: a positive integer of the expected digit length
validate_rb_number(rb) ==
    /\ Len(rb) = RbDigits
    /\ \A i \in 1..Len(rb) : rb[i] \in Digits
    /\ IntOf(rb) > 0

\* ------------------------------------------------------------ store rows
NewRun(inst, run_number, rb, version, status, text) ==
    [inst |-> inst, run_number |-> run_number, rb |-> rb, version |-> version,
     status |-> status, started |-> 0, finished |-> 0, message |-> text,
     hist |-> <<>>]

NoData == [present |-> FALSE, paths |-> <<>>]

RECURSIVE SeqsUpTo(_, _)
SeqsUpTo(S, n) ==
    IF n = 0 THEN {<<>>}
    ELSE LET shorter == SeqsUpTo(S, n - 1)
         IN shorter \cup {Append(q, x) : q \in shorter, x \in S}

\* message.reduction_data: None, or a list of output paths
ReductionData ==
    {NoData} \cup {[present |-> TRUE, paths |-> q] : q \in SeqsUpTo(OutPaths, MaxOut)}

\* --------------------------------------------------- one event's execution
\* What the handler found when it consulted its surroundings; Unasked when the
\* handler never got that far.
NoAnswers ==
    [rb_valid |-> Unasked, is_paused |-> Unasked, script_present |-> Unasked,
     resolve |-> Unasked, valid |-> Unasked, process_finished |-> Unasked,
     text |-> NoText, reduction_data |-> NoData]

\* The context threaded through a handler: the store as written so far, the
\* exception in flight (NoFault while running), the safe_save calls and the
\* launches made, and the answers of the surroundings. A step whose outcome the
\* handler does not control (a store write, the script on disk, the execution
\* collaborator) yields the set of contexts it can end in.
Ctx ==
    [insts |-> instruments, exps |-> experiments, runs |-> runs, data |-> dataLocs,
     red |-> redLocs, fault |-> NoFault, saves |-> 0, launches |-> 0,
     now |-> clock + 1, asked |-> NoAnswers, inst_saves |-> 0]

Raise(c, exc) == [c EXCEPT !.fault = exc]
Running(S) == {c \in S : c.fault = NoFault}
Raised(S) == {c \in S : c.fault # NoFault}

\* the IntegrityError logged and not raised again
safe_save_swallowing(c, written) ==
    { [written EXCEPT !.saves = @ + 1],
      [c EXCEPT !.saves = @ + 1] }

\* a rejected write tried a second time before the error is raised
safe_save_retrying(c, written) ==
    { [written EXCEPT !.saves = @ + 1],
      [written EXCEPT !.saves = @ + 2],
      [c EXCEPT !.saves = @ + 2, !.fault = IntegrityError] }

\* safe_save(obj): obj.save() in a transaction of its own; `written` is the
\* store with the row saved. The store applies the write or rejects it with an
\* IntegrityError, which is logged and re-raised.
safe_save(c, written) ==
    { [written EXCEPT !.saves = @ + 1],
      [c EXCEPT !.saves = @ + 1, !.fault = IntegrityError] }

\* rows as obj.save() writes them; a run's hist records every status persisted
PutRun(c, id, row) ==
    LET saved == [row EXCEPT !.hist = Append(@, row.status)]
    IN  [c EXCEPT !.runs = IF id = Len(c.runs) + 1 THEN Append(c.runs, saved)
                           ELSE [c.runs EXCEPT ![id] = saved]]

PutDataLocation(c, id, path) ==
    [c EXCEPT !.data = Append(c.data, [run |-> id, file_path |-> path])]

PutReductionLocation(c, id, path) ==
    [c EXCEPT !.red = Append(c.red, [run |-> id, file_path |-> path])]

\* ------------------------------------------------------ lifecycle handlers
common_reduction_run_update(run, status, message, now) ==
    [run EXCEPT !.status = status, !.finished = now, !.message = message.message]

\* reduction_started without its status check
reduction_started_unchecked(c, id, message) ==
    safe_save(c, PutRun(c, id, [c.runs[id] EXCEPT !.status = StatusProcessing,
                                                  !.started = c.now]))

\* reduction_started accepting a completed run as well
reduction_started_recomplete(c, id, message) ==
    LET run == c.runs[id]
    IN  IF run.status \notin {StatusError, StatusQueued, StatusCompleted}
        THEN {Raise(c, InvalidStateException)}
        ELSE safe_save(c, PutRun(c, id, [run EXCEPT !.status = StatusProcessing,
                                                    !.started = c.now]))

reduction_started(c, id, message) ==
    LET run == c.runs[id]
    IN  IF run.status \notin {StatusError, StatusQueued}
        THEN {Raise(c, InvalidStateException)}
        ELSE safe_save(c, PutRun(c, id, [run EXCEPT !.status = StatusProcessing,
                                                    !.started = c.now]))

RECURSIVE save_locations(_, _, _)
save_locations(c, id, paths) ==
    IF Len(paths) = 0 THEN {c}
    ELSE LET first == safe_save(c, PutReductionLocation(c, id, Head(paths)))
         IN  Raised(first)
                \cup UNION {save_locations(d, id, Tail(paths)) : d \in Running(first)}

\* reduction_complete without its status check
reduction_complete_unchecked(c, id, message) ==
    LET updated == common_reduction_run_update(c.runs[id], StatusCompleted, message, c.now)
        located == IF message.reduction_data.present
                   THEN save_locations(c, id, message.reduction_data.paths)
                   ELSE {c}
    IN  Raised(located)
            \cup UNION {safe_save(d, PutRun(d, id, updated)) : d \in Running(located)}

reduction_complete(c, id, message) ==
    LET run == c.runs[id]
        updated == common_reduction_run_update(run, StatusCompleted, message, c.now)
        located == IF message.reduction_data.present
                   THEN save_locations(c, id, message.reduction_data.paths)
                   ELSE {c}
    IN  IF run.status # StatusProcessing
        THEN {Raise(c, InvalidStateException)}
        ELSE Raised(located)
                \cup UNION {safe_save(d, PutRun(d, id, updated)) : d \in Running(located)}

reduction_skipped(c, id, message) ==
    safe_save(c, PutRun(c, id,
        common_reduction_run_update(c.runs[id], StatusSkipped, message, c.now)))

\* reduction_error with the status check reduction_complete makes
reduction_error_checked(c, id, message) ==
    IF c.runs[id].status # StatusProcessing
    THEN {Raise(c, InvalidStateException)}
    ELSE safe_save(c, PutRun(c, id,
            common_reduction_run_update(c.runs[id], StatusError, message, c.now)))

reduction_error(c, id, message) ==
    safe_save(c, PutRun(c, id,
        common_reduction_run_update(c.runs[id], StatusError, message, c.now)))

\* ReductionProcessManager(message).run() -> (process_finished, message, err):
\* the launch fails, or the collaborator returns the message it was given with
\* the output locations and, when the reduction failed, error text of its own
run_results(message) ==
    {[process_finished |-> FALSE, message |-> message]}
        \cup {[process_finished |-> TRUE,
               message |-> [message EXCEPT !.message = text, !.reduction_data = rd]] :
                 text \in {message.message, ErrorText}, rd \in ReductionData}

Launched(c, result) ==
    [c EXCEPT !.launches = @ + 1,
              !.asked.process_finished = YesNo(result.process_finished),
              !.asked.text = result.message.message,
              !.asked.reduction_data = result.message.reduction_data]

\* a failed launch recorded on the run as an error
do_reduction_failed_launch_is_error(c, id, message) ==
    LET started == reduction_started(c, id, message)
        finish(d, result) ==
            IF result.process_finished
            THEN IF result.message.message # NoText
                 THEN reduction_error(d, id, result.message)
                 ELSE reduction_complete(d, id, result.message)
            ELSE reduction_error(d, id, result.message)
    IN  Raised(started)
            \cup UNION {finish(Launched(d, result), result) :
                            d \in Running(started), result \in run_results(message)}

\* the returned message completed whatever text it carries
do_reduction_ignoring_text(c, id, message) ==
    LET started == reduction_started(c, id, message)
        finish(d, result) ==
            IF result.process_finished
            THEN reduction_complete(d, id, result.message)
            ELSE {d}
    IN  Raised(started)
            \cup UNION {finish(Launched(d, result), result) :
                            d \in Running(started), result \in run_results(message)}

\* the collaborator run before the run is marked as started
do_reduction_launch_first(c, id, message) ==
    LET finish(d, result) ==
            IF result.process_finished
            THEN IF result.message.message # NoText
                 THEN reduction_error(d, id, result.message)
                 ELSE reduction_complete(d, id, result.message)
            ELSE {d}
        after(result) ==
            LET started == reduction_started(Launched(c, result), id, message)
            IN  Raised(started) \cup UNION {finish(d, result) : d \in Running(started)}
    IN  UNION {after(result) : result \in run_results(message)}

\* do_reduction launching without marking the run as started
do_reduction_unstarted(c, id, message) ==
    LET finish(d, result) ==
            IF result.process_finished
            THEN IF result.message.message # NoText
                 THEN reduction_error(d, id, result.message)
                 ELSE reduction_complete(d, id, result.message)
            ELSE {d}
    IN  UNION {finish(Launched(c, result), result) : result \in run_results(message)}

do_reduction(c, id, message) ==
    LET started == reduction_started(c, id, message)
        finish(d, result) ==
            IF result.process_finished
            THEN IF result.message.message # NoText
                 THEN reduction_error(d, id, result.message)
                 ELSE reduction_complete(d, id, result.message)
            ELSE {d}
    IN  Raised(started)
            \cup UNION {finish(Launched(d, result), result) :
                            d \in Running(started), result \in run_results(message)}

\* the message sent onwards without looking at the validation's answer
send_message_onwards_unvalidated(c, id, message, instrument) ==
    UNION { LET d == [c EXCEPT !.asked.valid = YesNo(valid)]
            IN  IF instrument.is_paused THEN reduction_skipped(d, id, message)
                ELSE do_reduction(d, id, message)
            : valid \in BOOLEAN }

\* message.validate("/queue/DataReady") raises RuntimeError or returns
send_message_onwards(c, id, message, instrument) ==
    UNION { LET d == [c EXCEPT !.asked.valid = YesNo(valid)]
            IN  IF ~valid THEN reduction_skipped(d, id, message)
                ELSE IF instrument.is_paused THEN reduction_skipped(d, id, message)
                ELSE do_reduction(d, id, message)
            : valid \in BOOLEAN }

\* ------------------------------------------------------------- data_ready
\* the reference is zeroed but no text is recorded on the message
check_rb_number_silent(message) ==
    IF ~validate_rb_number(message.rb_number)
    THEN [message EXCEPT !.rb_number = 0]
    ELSE [message EXCEPT !.rb_number = IntOf(message.rb_number)]

\* an invalid rb number does not reject the event: the text is recorded on
\* the message and the reference becomes 0
check_rb_number(message) ==
    IF ~validate_rb_number(message.rb_number)
    THEN [message EXCEPT !.message = RbWarning, !.rb_number = 0]
    ELSE [message EXCEPT !.rb_number = IntOf(message.rb_number)]

NewInstrument == [exists |-> TRUE, is_active |-> FALSE, is_paused |-> FALSE]

\* the instrument saved whether it was active or not
get_and_save_db_inst(c, instrument_name) ==
    LET found == IF c.insts[instrument_name].exists THEN c.insts[instrument_name]
                 ELSE NewInstrument
    IN  [c EXCEPT !.insts[instrument_name] = [found EXCEPT !.is_active = TRUE],
                  !.inst_saves = @ + 1]

\* inst_saves counts the calls of instrument.save()
get_and_activate_db_inst(c, instrument_name) ==
    LET found == IF c.insts[instrument_name].exists THEN c.insts[instrument_name]
                 ELSE NewInstrument
    IN  IF ~found.is_active
        THEN [c EXCEPT !.insts[instrument_name] = [found EXCEPT !.is_active = TRUE],
                       !.inst_saves = @ + 1]
        ELSE [c EXCEPT !.insts[instrument_name] = found]

\* the initial status chosen without looking at is_paused
initial_status_queued(instrument) == StatusQueued

initial_status(instrument) ==
    IF instrument.is_paused THEN StatusSkipped ELSE StatusQueued

get_experiment(c, rb_number) == [c EXCEPT !.exps = @ \cup {rb_number}]

Max(S) == CHOOSE x \in S : \A y \in S : y <= x

\* db_access.find_highest_run_version: the next version of the run, one more
\* than every version stored for (run_number, experiment), 0 when there is none
find_highest_run_version(rs, run_number, experiment) ==
    LET versions == {rs[i].version : i \in {j \in 1..Len(rs) :
                        rs[j].run_number = run_number /\ rs[j].rb = experiment}}
    IN  IF versions = {} THEN 0 ELSE Max(versions) + 1

\* the version looked up for the run number alone, under experiment 0
next_run_version_unscoped(c, message) ==
    find_highest_run_version(c.runs, message.run_number, 0)

next_run_version(c, message) ==
    find_highest_run_version(c.runs, message.run_number, message.rb_number)

\* script_text is None: self.reduction_error(message) is called with one
\* argument where the method takes (reduction_run, message); the call itself
\* raises TypeError, before reduction_error or the raise after it can run
script_text_missing(c, message) == {Raise(c, TypeError)}

create_reduction_run(c, id, message, status) ==
    safe_save(c, PutRun(c, id, NewRun(message.instrument, message.run_number,
                                      message.rb_number, message.run_version,
                                      status, NoText)))

\* the location saved a second time
create_data_location_twice(c, id, message) ==
    UNION {safe_save(d, PutDataLocation(d, id, message.data)) :
              d \in Running(safe_save(c, PutDataLocation(c, id, message.data)))}
        \cup Raised(safe_save(c, PutDataLocation(c, id, message.data)))

create_data_location(c, id, message) ==
    safe_save(c, PutDataLocation(c, id, message.data))

\* create_run_variables is atomic: it stores the run's variables ("ok") or
\* leaves the store as it was and raises (IntegrityError from the store, or the
\* fault of a missing or malformed reduce_vars script)
create_run_variables(c) ==
    { [c EXCEPT !.asked.resolve = "ok"],
      Raise([c EXCEPT !.asked.resolve = IntegrityError], IntegrityError),
      Raise([c EXCEPT !.asked.resolve = ConfigurationFault], ConfigurationFault) }

\* except IntegrityError: log and raise; any other exception passes through
create_variables_for_run(c, id) == create_run_variables(c)

\* data_ready up to the version lookup (lines 73-90): the message with its
\* checked reference and its version, the instrument row, the initial status
data_ready_lookup(c0, received) ==
    LET checked == check_rb_number(received)
        activated == get_and_activate_db_inst(c0, checked.instrument)
        instrument == activated.insts[checked.instrument]
        looked == get_experiment(activated, checked.rb_number)
    IN  [message |-> [checked EXCEPT !.run_version = next_run_version(looked, checked)],
         instrument |-> instrument,
         status |-> initial_status(instrument),
         c |-> [looked EXCEPT
                   !.asked.rb_valid = YesNo(validate_rb_number(received.rb_number)),
                   !.asked.is_paused = YesNo(instrument.is_paused),
                   !.asked.text = checked.message]]

\* data_ready after the run record is saved (lines 110-133)
data_ready_onwards(created, id, message, instrument) ==
    LET located == UNION {create_data_location(d, id, message) : d \in Running(created)}
        variables == UNION {create_variables_for_run(d, id) : d \in Running(located)}
    IN  Raised(located) \cup Raised(variables)
            \cup UNION {send_message_onwards(d, id, message, instrument) :
                            d \in Running(variables)}

data_ready(c0, received) ==
    LET found == data_ready_lookup(c0, received)
        c == found.c
        id == Len(c.runs) + 1
        with_script == [c EXCEPT !.asked.script_present = Yes]
        created == create_reduction_run(with_script, id, found.message, found.status)
    IN  script_text_missing([c EXCEPT !.asked.script_present = No], found.message)
            \cup Raised(created)
            \cup data_ready_onwards(created, id, found.message, found.instrument)

\* ------------------------------------------------------------------ events
\* the store after the event; an exception leaves what was written before it
Commit(c, op, run, pre) ==
    /\ instruments' = c.insts
    /\ experiments' = c.exps
    /\ runs' = c.runs
    /\ dataLocs' = c.data
    /\ redLocs' = c.red
    /\ clock' = clock + 1
    /\ last' = [op |-> op, run |-> run, pre |-> pre, fault |-> c.fault,
                launches |-> c.launches, saves |-> c.saves, asked |-> c.asked]
    /\ UNCHANGED <<workers, ivars, resolved, viewVars>>

DataReady ==
    \E inst \in InstrumentNames, run_number \in RunNumbers, rb \in RbInputs,
       data \in DataPaths :
        /\ clock < MaxEvents
        /\ data = DataFileOf[inst]
        /\ LET received == [instrument |-> inst, run_number |-> run_number,
                            rb_number |-> rb, run_version |-> -1, data |-> data,
                            message |-> NoText, reduction_data |-> NoData]
           IN  \E c \in data_ready(Ctx, received) :
                    Commit(c, "data_ready",
                           IF Len(c.runs) > Len(runs) THEN Len(c.runs) ELSE 0, "none")

\* the message a lifecycle event carries for a stored run
MessageFor(id, text, reduction_data) ==
    [instrument |-> runs[id].inst, run_number |-> runs[id].run_number,
     rb_number |-> runs[id].rb, run_version |-> runs[id].version,
     data |-> "", message |-> text, reduction_data |-> reduction_data]

Given(text, reduction_data) ==
    [Ctx EXCEPT !.asked.text = text, !.asked.reduction_data = reduction_data]

ReductionStarted ==
    \E id \in 1..Len(runs) :
        /\ clock < MaxEvents
        /\ \E c \in reduction_started(Ctx, id, MessageFor(id, NoText, NoData)) :
                Commit(c, "reduction_started", id, runs[id].status)

ReductionComplete ==
    \E id \in 1..Len(runs), text \in Texts, rd \in ReductionData :
        /\ clock < MaxEvents
        /\ \E c \in reduction_complete(Given(text, rd), id, MessageFor(id, text, rd)) :
                Commit(c, "reduction_complete", id, runs[id].status)

ReductionSkipped ==
    \E id \in 1..Len(runs), text \in Texts :
        /\ clock < MaxEvents
        /\ \E c \in reduction_skipped(Given(text, NoData), id, MessageFor(id, text, NoData)) :
                Commit(c, "reduction_skipped", id, runs[id].status)

ReductionError ==
    \E id \in 1..Len(runs), text \in Texts :
        /\ clock < MaxEvents
        /\ \E c \in reduction_error(Given(text, NoData), id, MessageFor(id, text, NoData)) :
                Commit(c, "reduction_error", id, runs[id].status)

\* -------------------------------------------------------- concurrent workers
\* Two workers take one data-ready event each. Each store access is a
\* transaction of its own, so the events of two workers interleave between
\* the version lookup, the insert of the run and the rest of data_ready.
Workers == {1, 2}

NoMessage ==
    [instrument |-> "", run_number |-> 0, rb_number |-> 0, run_version |-> -1,
     data |-> "", message |-> NoText, reduction_data |-> NoData]

IdleWorker ==
    [pc |-> "idle", message |-> NoMessage, instrument |-> NewInstrument,
     status |-> StatusQueued, id |-> 0, insert |-> "none", fault |-> NoFault]

\* ReductionRun's identity is (instrument, run_number, run_version): the store
\* holds no two rows with the same one
run_version_unique(rs) ==
    \A i, j \in 1..Len(rs) :
        i # j => <<rs[i].inst, rs[i].run_number, rs[i].version>>
                    # <<rs[j].inst, rs[j].run_number, rs[j].version>>

\* what a worker's step leaves in the store
WorkerCommit(c) ==
    /\ instruments' = c.insts
    /\ experiments' = c.exps
    /\ runs' = c.runs
    /\ dataLocs' = c.data
    /\ redLocs' = c.red
    /\ UNCHANGED <<last, ivars, resolved, viewVars>>

\* lines 73-98: the worker takes an event and looks the run's version up
WorkerLookup(w) ==
    \E inst \in InstrumentNames, run_number \in RunNumbers, rb \in RbInputs,
       script_present \in BOOLEAN :
        /\ workers[w].pc = "idle"
        /\ clock < MaxEvents
        /\ LET received == [instrument |-> inst, run_number |-> run_number,
                            rb_number |-> rb, run_version |-> -1,
                            data |-> DataFileOf[inst],
                            message |-> NoText, reduction_data |-> NoData]
               found == data_ready_lookup(Ctx, received)
           IN  /\ WorkerCommit(found.c)
               /\ clock' = clock + 1
               /\ workers' = [workers EXCEPT ![w] =
                     [pc |-> IF script_present THEN "looked" ELSE "raised",
                      message |-> found.message, instrument |-> found.instrument,
                      status |-> found.status, id |-> 0, insert |-> "none",
                      fault |-> IF script_present THEN NoFault ELSE TypeError]]

\* lines 102-108: the run record is saved; the store applies the insert only
\* if the run's identity stays unique
WorkerInsert(w) ==
    /\ workers[w].pc = "looked"
    /\ \E c \in create_reduction_run(Ctx, Len(runs) + 1, workers[w].message,
                                      workers[w].status) :
          /\ c.fault = NoFault => run_version_unique(c.runs)
          /\ WorkerCommit(c)
          /\ clock' = clock
          /\ workers' = [workers EXCEPT
                ![w].pc = IF c.fault = NoFault THEN "inserted" ELSE "raised",
                ![w].id = IF c.fault = NoFault THEN Len(runs) + 1 ELSE 0,
                ![w].insert = IF c.fault = NoFault THEN "saved" ELSE c.fault,
                ![w].fault = c.fault]

\* lines 110-133: data location, variables, dispatch
WorkerOnwards(w) ==
    /\ workers[w].pc = "inserted"
    /\ \E c \in data_ready_onwards({Ctx}, workers[w].id, workers[w].message,
                                    workers[w].instrument) :
          /\ WorkerCommit(c)
          /\ clock' = clock
          /\ workers' = [workers EXCEPT
                ![w].pc = IF c.fault = NoFault THEN "returned" ELSE "raised",
                ![w].fault = c.fault]

\* -------------------------------------------------- instrument variables
Null == -1                      \* None / SQL NULL of an integer column
MultipleObjectsReturned == "MultipleObjectsReturned"

VariableNames == {"a", "b"}
VariableRunNumbers == {100, 101}
ExperimentReferences == {1234567}
InstrumentIds == {1}

\* values of reduce_vars.py: the python type and str(value)
PyValues ==
    { [py |-> "int", str |-> <<"1">>],
      [py |-> "int", str |-> <<"2">>],
      [py |-> "list", str |-> <<"[", "1", "]">>] }

\* VariableUtils.get_type_string
get_type_string(value) ==
    CASE value.py = "int" -> "number"
      [] value.py = "list" -> "list_number"
      [] value.py = "str" -> "text"
      [] value.py = "bool" -> "boolean"

\* str(value).replace('[', '').replace(']', '')
script_value_of(value) == SelectSeq(value.str, LAMBDA ch : ch \notin {"[", "]"})

\* html.escape, then newline and tab as markup
replace_special_chars(help_text) ==
    [i \in 1..Len(help_text) |->
        CASE help_text[i] = "&" -> "&amp;"
          [] help_text[i] = "<" -> "&lt;"
          [] help_text[i] = ">" -> "&gt;"
          [] help_text[i] = "\n" -> "<br>"
          [] help_text[i] = "\t" -> "&nbsp;&nbsp;&nbsp;&nbsp;"
          [] OTHER -> help_text[i]]

\* variable_help of reduce_vars.py: dict_name -> (name -> text), either absent
NoHelp == [dict_name \in {} |-> <<>>]
HelpForA == [dict_name \in {"standard_vars"} |-> [name \in {"a"} |-> <<"x", "<", "\n">>]]

get_help_text(dict_name, key, reduction_arguments) ==
    IF dict_name \in DOMAIN reduction_arguments.variable_help
    THEN IF key \in DOMAIN reduction_arguments.variable_help[dict_name]
         THEN replace_special_chars(reduction_arguments.variable_help[dict_name][key])
         ELSE <<>>
    ELSE <<>>

\* the merged arguments: a dict of standard and a dict of advanced variables,
\* in the order reduce_vars.py declares them, and the help texts
One == [py |-> "int", str |-> <<"1">>]
ReductionArguments ==
    { [standard_vars |-> <<>>, advanced_vars |-> <<>>, variable_help |-> NoHelp] }
    \cup { [standard_vars |-> <<[name |-> "a", value |-> v]>>, advanced_vars |-> <<>>,
            variable_help |-> NoHelp] : v \in PyValues }
    \cup { [standard_vars |-> <<[name |-> "a", value |-> One]>>, advanced_vars |-> <<>>,
            variable_help |-> HelpForA],
           [standard_vars |-> <<[name |-> "a", value |-> One]>>,
            advanced_vars |-> <<[name |-> "b", value |-> One]>>,
            variable_help |-> NoHelp],
           [standard_vars |-> <<[name |-> "b", value |-> One], [name |-> "a", value |-> One]>>,
            advanced_vars |-> <<>>, variable_help |-> NoHelp] }

\* a QuerySet of InstrumentVariable rows: lazy, evaluated against the table as
\* it is when a lookup is made. create_run_variables filters by
\* Q(experiment_reference=...) | Q(start_run__lte=...) and instrument_id; the
\* web application passes the rows of the instrument.
ForRun(experiment_reference, run_number, instrument_id) ==
    [scoped |-> TRUE, experiment_reference |-> experiment_reference,
     run_number |-> run_number, instrument_id |-> instrument_id]

OfInstrument(instrument_id) ==
    [scoped |-> FALSE, experiment_reference |-> Null, run_number |-> Null,
     instrument_id |-> instrument_id]

\* a comparison with NULL is never true
InQuerySet(possible_variables, row) ==
    /\ row.instrument_id = possible_variables.instrument_id
    /\ possible_variables.scoped =>
          \/ /\ row.experiment_reference # Null
             /\ row.experiment_reference = possible_variables.experiment_reference
          \/ /\ row.start_run # Null
             /\ row.start_run <= possible_variables.run_number

\* what one call of the resolver carries along: the table, the rows returned
\* so far with the row each was matched to (0 for none), the exception
Resolving(store) == [store |-> store, snapshot |-> <<>>, fault |-> NoFault]

\* .get(name=, experiment_reference=): None is looked up as IS NULL; no row is
\* ObjectDoesNotExist, caught; several rows are MultipleObjectsReturned, not
\* caught. Otherwise .filter(name=).order_by("-start_run").first(): NULL sorts
\* below every number (MySQL), rows with equal start_run come in any order.
\* The result is the set of [fault, id], id = 0 for None.
find_appropriate_variable(store, possible_variables, name, expriment_reference) ==
    LET visible == {i \in 1..Len(store) :
                        InQuerySet(possible_variables, store[i]) /\ store[i].name = name}
        variables_set_for_experiment ==
            {i \in visible : store[i].experiment_reference = expriment_reference}
        latest == {i \in visible : \A j \in visible : store[j].start_run <= store[i].start_run}
    IN  IF Cardinality(variables_set_for_experiment) > 1
        THEN {[fault |-> MultipleObjectsReturned, id |-> 0]}
        ELSE IF variables_set_for_experiment # {}
        THEN {[fault |-> NoFault, id |-> i] : i \in variables_set_for_experiment}
        ELSE IF visible = {} THEN {[fault |-> NoFault, id |-> 0]}
        ELSE {[fault |-> NoFault, id |-> i] : i \in latest}

\* every change written to the row it was read from
update_in_place_if_changed(store, id, new_value, new_type, new_help_text, run_number) ==
    [store |-> [store EXCEPT ![id] = [@ EXCEPT !.value = new_value, !.type = new_type,
                                                 !.help_text = new_help_text]],
     id |-> id]

\* every change written to a copy of the row
copy_if_changed(store, id, new_value, new_type, new_help_text, run_number) ==
    LET variable == store[id]
        updated == [variable EXCEPT !.value = new_value, !.type = new_type,
                                    !.help_text = new_help_text, !.start_run = run_number]
    IN  IF updated = variable THEN [store |-> store, id |-> id]
        ELSE [store |-> Append(store, updated), id |-> Len(store) + 1]

\* the row, or its copy, that the caller goes on with
update_or_copy_if_changed(store, id, new_value, new_type, new_help_text, run_number) ==
    LET variable == store[id]
        changed == \/ new_value # variable.value
                   \/ new_type # variable.type
                   \/ new_help_text # variable.help_text
        updated == [variable EXCEPT !.value = new_value, !.type = new_type,
                                    !.help_text = new_help_text]
    IN  IF ~changed THEN [store |-> store, id |-> id]
        ELSE IF variable.start_run # run_number
        THEN [store |-> Append(store, [updated EXCEPT !.start_run = run_number]),
              id |-> Len(store) + 1]
        ELSE [store |-> [store EXCEPT ![id] = updated], id |-> id]

\* every matched row brought up to the script
follows_script_always(variable, force_update) == TRUE

\* elif variable.tracks_script or force_update: the matched row is brought up
\* to the script, otherwise it is returned as stored
follows_script(variable, force_update) == variable.tracks_script \/ force_update

\* one turn of the loop of find_or_make_variables, for all_vars[k]
find_or_make_variable(r, var, possible_variables, run_number, instrument_id, reduction_arguments, experiment_reference, tracks_script, force_update) ==
    LET script_help_text ==
            get_help_text(IF var.is_advanced THEN "advanced_vars" ELSE "standard_vars",
                          var.name, reduction_arguments)
        script_value == script_value_of(var.value)
        script_type == get_type_string(var.value)
        \* variable.reference_number is set when an experiment reference is
        \* given: not a column of the row, the columns keep their defaults
        created ==
            [name |-> var.name, value |-> script_value, type |-> script_type,
             help_text |-> script_help_text, is_advanced |-> var.is_advanced,
             instrument_id |-> instrument_id, tracks_script |-> tracks_script,
             experiment_reference |-> Null,
             start_run |-> IF experiment_reference \notin {Null, 0}
                           THEN Null ELSE run_number]
        outcome(found) ==
            IF found.fault # NoFault THEN [r EXCEPT !.fault = found.fault]
            ELSE IF found.id = 0
            THEN [r EXCEPT !.store = Append(r.store, created),
                           !.snapshot = Append(@, [id |-> Len(r.store) + 1, matched |-> 0])]
            ELSE IF follows_script(r.store[found.id], force_update)
            THEN LET saved == update_or_copy_if_changed(r.store, found.id, script_value,
                                                        script_type, script_help_text,
                                                        run_number)
                 IN  [r EXCEPT !.store = saved.store,
                               !.snapshot = Append(@, [id |-> saved.id, matched |-> found.id])]
            ELSE [r EXCEPT !.snapshot = Append(@, [id |-> found.id, matched |-> found.id])]
    IN  {outcome(found) : found \in find_appropriate_variable(r.store, possible_variables,
                                                               var.name, experiment_reference)}

RECURSIVE find_or_make_each(_, _, _, _, _, _, _, _, _)
find_or_make_each(r, all_vars, possible_variables, run_number, instrument_id, reduction_arguments, experiment_reference, tracks_script, force_update) ==
    IF all_vars = <<>> \/ r.fault # NoFault THEN {r}
    ELSE UNION {find_or_make_each(next, Tail(all_vars), possible_variables, run_number,
                                  instrument_id, reduction_arguments,
                                  experiment_reference, tracks_script, force_update) :
                  next \in find_or_make_variable(r, Head(all_vars), possible_variables,
                                                 run_number, instrument_id,
                                                 reduction_arguments, experiment_reference,
                                                 tracks_script, force_update)}

\* the (name, value, is_advanced) of a dict's items
TuplesOf(dict, is_advanced) ==
    [i \in 1..Len(dict) |->
        [name |-> dict[i].name, value |-> dict[i].value, is_advanced |-> is_advanced]]

\* the advanced variables listed first
all_vars_advanced_first(reduction_arguments) ==
    TuplesOf(reduction_arguments.advanced_vars, TRUE)
        \o TuplesOf(reduction_arguments.standard_vars, FALSE)

\* all_vars: the items of standard_vars, extended by those of advanced_vars
all_vars_of(reduction_arguments) ==
    TuplesOf(reduction_arguments.standard_vars, FALSE)
        \o TuplesOf(reduction_arguments.advanced_vars, TRUE)

\* the standard variables, then the advanced ones; the rows written before an
\* exception stay written
find_or_make_variables(store, possible_variables, run_number, instrument_id, reduction_arguments, experiment_reference, tracks_script, force_update) ==
    find_or_make_each(Resolving(store), all_vars_of(reduction_arguments), possible_variables,
                      run_number, instrument_id, reduction_arguments, experiment_reference,
                      tracks_script, force_update)

\* create_run_variables, @transaction.atomic: the rows visible to the run, the
\* resolver with its default experiment_reference=None, tracks_script=True,
\* force_update=False; an exception rolls every write back
create_run_variables_of(store, experiment_reference, run_number, instrument_id, final_reduction_arguments) ==
    LET possible_variables == ForRun(experiment_reference, run_number, instrument_id)
        found == find_or_make_variables(store, possible_variables, run_number,
                                        instrument_id, final_reduction_arguments,
                                        Null, TRUE, FALSE)
    IN  {IF r.fault = NoFault THEN r ELSE [Resolving(store) EXCEPT !.fault = r.fault] :
            r \in found}

NoCall ==
    [op |-> "none", run_number |-> Null, experiment_reference |-> Null,
     tracks_script |-> FALSE, force_update |-> FALSE, scoped |-> FALSE,
     standard_vars |-> <<>>, advanced_vars |-> <<>>, helped |-> FALSE,
     snapshot |-> <<>>, fault |-> NoFault, calls |-> 0]

Returned(op, r, run_number, experiment_reference, tracks_script, force_update, scoped, reduction_arguments) ==
    /\ ivars' = r.store
    /\ resolved' = [op |-> op, run_number |-> run_number,
                    experiment_reference |-> experiment_reference,
                    tracks_script |-> tracks_script, force_update |-> force_update,
                    scoped |-> scoped,
                    standard_vars |-> reduction_arguments.standard_vars,
                    advanced_vars |-> reduction_arguments.advanced_vars,
                    helped |-> reduction_arguments.variable_help # NoHelp,
                    snapshot |-> r.snapshot, fault |-> r.fault,
                    calls |-> resolved.calls + 1]
    /\ UNCHANGED <<instruments, experiments, runs, dataLocs, redLocs, clock, last, workers,
                   viewVars>>

\* the queue processor resolves the variables of a new run
CreateRunVariables ==
    \E run_number \in VariableRunNumbers, experiment_reference \in ExperimentReferences \cup {0},
       instrument_id \in InstrumentIds, reduction_arguments \in ReductionArguments :
        /\ resolved.calls < MaxResolves
        /\ \E r \in create_run_variables_of(ivars, experiment_reference, run_number,
                                            instrument_id, reduction_arguments) :
              Returned("create_run_variables", r, run_number, experiment_reference,
                       TRUE, FALSE, TRUE, reduction_arguments)

\* the web application resolves the variables it was asked to configure
FindOrMakeVariables ==
    \E run_number \in VariableRunNumbers,
       experiment_reference \in ExperimentReferences \cup {Null},
       instrument_id \in InstrumentIds, reduction_arguments \in ReductionArguments,
       tracks_script \in BOOLEAN, force_update \in BOOLEAN :
        /\ resolved.calls < MaxResolves
        /\ \E r \in find_or_make_variables(ivars, OfInstrument(instrument_id), run_number,
                                           instrument_id, reduction_arguments,
                                           experiment_reference, tracks_script,
                                           force_update) :
              Returned("find_or_make_variables", r, run_number, experiment_reference,
                       tracks_script, force_update, FALSE, reduction_arguments)

\* -------------------------------------------------------- merge_arguments
KeyError == "KeyError"

\* a dict of variables keeps its insertion order: a sequence of [name, value]
Keys(dict) == {dict[i].name : i \in 1..Len(dict)}
GetItem(dict, name) == dict[CHOOSE i \in 1..Len(dict) : dict[i].name = name].value
SetItem(dict, name, value) ==
    [i \in 1..Len(dict) |-> IF dict[i].name = name THEN [name |-> name, value |-> value]
                             ELSE dict[i]]

\* VariableUtils.convert_variable_to_type: the value read as the type the
\* script gave the name
convert_variable_to_type(value, var_type) ==
    CASE var_type = "number" -> [py |-> "int", str |-> value.str]
      [] var_type = "text" -> [py |-> "str", str |-> value.str]
      [] var_type = "list_number" ->
            IF value.py = "list" THEN value
            ELSE [py |-> "list", str |-> <<"[">> \o value.str \o <<"]">>]

\* the loop of set_with_correct_type. reduction_args[dict_name][name] is read
\* before it is written: a name the script does not declare is a KeyError.
\* A write reaches the module's own dict where reduction_args shares it.
RECURSIVE set_each_with_correct_type(_, _, _)
set_each_with_correct_type(m, items, dict_name) ==
    IF items = <<>> THEN m
    ELSE LET name == Head(items).name
             value == Head(items).value
         IN  IF name \notin Keys(m.reduction_args[dict_name])
             THEN [m EXCEPT !.fault = KeyError]
             ELSE LET real_type == get_type_string(GetItem(m.reduction_args[dict_name], name))
                      converted == convert_variable_to_type(value, real_type)
                  IN  set_each_with_correct_type(
                          [m EXCEPT !.reduction_args[dict_name] = SetItem(@, name, converted),
                                    !.module[dict_name] =
                                        IF dict_name \in m.shared
                                        THEN SetItem(@, name, converted) ELSE @],
                          Tail(items), dict_name)

\* the message's values left out
set_nothing(m, message_reduction_arguments, dict_name) == m

\* reduction_args always has dict_name; the message may lack it
set_with_correct_type(m, message_reduction_arguments, dict_name) ==
    IF m.fault = NoFault /\ message_reduction_arguments[dict_name].present
    THEN set_each_with_correct_type(m, message_reduction_arguments[dict_name].items, dict_name)
    ELSE m

\* deepcopy of the script's dicts: reduction_args shares none with the module
deepcopy(reduce_vars_module) ==
    [reduction_args |-> [standard_vars |-> reduce_vars_module.standard_vars,
                         advanced_vars |-> reduce_vars_module.advanced_vars],
     module |-> reduce_vars_module, shared |-> {}, fault |-> NoFault]

\* [fault, reduction_args, module]: the exception or the merged arguments,
\* and the module as the call leaves it
merge_arguments(message_reduction_arguments, reduce_vars_module) ==
    LET standard == set_with_correct_type(deepcopy(reduce_vars_module),
                                          message_reduction_arguments, "standard_vars")
        advanced == set_with_correct_type(standard, message_reduction_arguments,
                                          "advanced_vars")
    IN  [fault |-> advanced.fault,
         reduction_args |->
            IF advanced.fault # NoFault THEN <<>>
            ELSE [standard_vars |-> advanced.reduction_args.standard_vars,
                  advanced_vars |-> advanced.reduction_args.advanced_vars,
                  variable_help |-> advanced.module.variable_help],
         module |-> advanced.module]

\* the variables of reduce_vars.py: a missing attribute is the empty dict
Two == [py |-> "int", str |-> <<"2">>]
TextTwo == [py |-> "str", str |-> <<"2">>]
ListOne == [py |-> "list", str |-> <<"[", "1", "]">>]
Item(name, value) == [name |-> name, value |-> value]

ReduceVarsModules ==
    { [standard_vars |-> s, advanced_vars |-> a, variable_help |-> h] :
        s \in {<<>>, <<Item("a", One)>>, <<Item("a", ListOne)>>},
        a \in {<<>>, <<Item("b", One)>>},
        h \in {NoHelp, HelpForA} }

\* the reduction arguments of a message: each dict given or not
NotGiven == [present |-> FALSE, items |-> <<>>]
GivenDict(items) == [present |-> TRUE, items |-> items]

MessageReductionArguments ==
    { [standard_vars |-> s, advanced_vars |-> a] :
        s \in {NotGiven, GivenDict(<<>>), GivenDict(<<Item("a", Two)>>),
                GivenDict(<<Item("a", TextTwo)>>), GivenDict(<<Item("b", Two)>>),
                GivenDict(<<Item("a", Two), Item("b", Two)>>)},
        a \in {NotGiven, GivenDict(<<Item("b", TextTwo)>>), GivenDict(<<Item("a", Two)>>)} }

NoMerge ==
    [pc |-> "none", message |-> <<>>, module |-> <<>>, fault |-> NoFault,
     reduction_args |-> <<>>, left |-> <<>>]

\* merge_arguments is called and returns or raises
MergeArguments ==
    /\ merged.pc = "called"
    /\ LET r == merge_arguments(merged.message, merged.module)
       IN  merged' = [merged EXCEPT !.pc = "returned", !.fault = r.fault,
                                    !.reduction_args = r.reduction_args,
                                    !.left = r.module]
    /\ UNCHANGED <<instruments, experiments, runs, dataLocs, redLocs, clock, last, workers,
                   ivars, resolved, rerun, confirmation, argsTable, posting, filtered>>

\* --------------------------------------------- find_reason_to_avoid_re_run
MaxPrevious == 3

\* f"Run number {run_number} ..." and the empty string
Reason(text, run_number) == [text |-> text, run_number |-> run_number]
NoReason == [text |-> "", run_number |-> Null]

\* only the most recent version looked at
find_reason_from_most_recent_run(matching_previous_runs, run_number) ==
    IF matching_previous_runs = <<>>
    THEN [run_suitable |-> FALSE,
          reason |-> Reason("hasn't been ran by autoreduction yet.", run_number)]
    ELSE IF Head(matching_previous_runs).status = StatusQueued
    THEN [run_suitable |-> FALSE,
          reason |-> Reason("is already queued to run", Head(matching_previous_runs).run_number)]
    ELSE [run_suitable |-> TRUE, reason |-> NoReason]

\* matching_previous_runs: the versions of the run, most recent first
find_reason_to_avoid_re_run(matching_previous_runs, run_number) ==
    LET queued_runs == SelectSeq(matching_previous_runs,
                                 LAMBDA run : run.status = StatusQueued)
    IN  IF matching_previous_runs = <<>>
        THEN [run_suitable |-> FALSE,
              reason |-> Reason("hasn't been ran by autoreduction yet.", run_number)]
        ELSE IF queued_runs # <<>>
        THEN [run_suitable |-> FALSE,
              reason |-> Reason("is already queued to run", Head(queued_runs).run_number)]
        ELSE [run_suitable |-> TRUE, reason |-> NoReason]

\* related_runs.filter(run_numbers__run_number=run_number)
\*              .order_by('-run_version'): versions n-1 .. 0 of the run
MatchingPreviousRuns(run_number) ==
    { [i \in 1..Len(statuses) |->
          [run_number |-> run_number, run_version |-> Len(statuses) - i,
           status |-> statuses[i]]] :
        statuses \in SeqsUpTo(Statuses, MaxPrevious) }

NoRerun ==
    [pc |-> "none", matching_previous_runs |-> <<>>, run_number |-> Null,
     run_suitable |-> FALSE, reason |-> NoReason]

\* the run confirmation view asks whether a run number may be resubmitted
FindReasonToAvoidReRun ==
    /\ rerun.pc = "called"
    /\ LET r == find_reason_to_avoid_re_run(rerun.matching_previous_runs, rerun.run_number)
       IN  rerun' = [rerun EXCEPT !.pc = "returned", !.run_suitable = r.run_suitable,
                                  !.reason = r.reason]
    /\ UNCHANGED <<instruments, experiments, runs, dataLocs, redLocs, clock, last, workers,
                   ivars, resolved, merged, confirmation, argsTable, posting, filtered>>

\* ------------------------------------------------------- run_confirmation
MaxRunsSuperuser == 500
MaxRunsStaff == 50
MaxRunsOther == 20

SyntaxError == "SyntaxError"
ConnectionError == "ConnectionError"
Exception == "Exception"

\* the messages put under context_dictionary['error']
ContextError(text) == Reason(text, Null)

\* every user given the limit of a superuser
max_runs_of_superuser(user) == MaxRunsSuperuser

max_runs(user) ==
    IF user.is_superuser THEN MaxRunsSuperuser
    ELSE IF user.is_staff THEN MaxRunsStaff
    ELSE MaxRunsOther

\* .order_by('-run_version')
RECURSIVE ByVersionDescending(_)
ByVersionDescending(rows) ==
    IF rows = {} THEN <<>>
    ELSE LET first == CHOOSE r \in rows : \A q \in rows : q.run_version <= r.run_version
         IN  <<first>> \o ByVersionDescending(rows \ {first})

\* ReductionRun.objects.filter(instrument__name=instrument, batch_run=False,
\*                             run_numbers__run_number__in=run_numbers)
related_runs_of(table, run_numbers) ==
    {r \in table : ~r.batch_run /\ \E i \in 1..Len(run_numbers) : run_numbers[i] = r.run_number}

\* for run_number in run_numbers: the reason of an unsuitable run is put in
\* the context and the loop is left with break, not the view
RECURSIVE check_each_run(_, _, _)
check_each_run(context, run_numbers, related_runs) ==
    IF run_numbers = <<>> THEN context
    ELSE LET run_number == Head(run_numbers)
             matching_previous_runs ==
                 ByVersionDescending({r \in related_runs : r.run_number = run_number})
             found == find_reason_to_avoid_re_run(matching_previous_runs, run_number)
         IN  IF ~found.run_suitable
             THEN [context EXCEPT !.error = found.reason]
             ELSE check_each_run(
                      [context EXCEPT !.runs = Append(@, <<run_number,
                                         Head(matching_previous_runs).run_version + 1>>)],
                      Tail(run_numbers), related_runs)

\* requests.post and what the view makes of the response; a request that
\* cannot connect does not reach the service
post_runs(context, run_numbers, response) ==
    [context EXCEPT
        !.posted = IF response = ConnectionError THEN @ ELSE Append(@, run_numbers),
        !.error = CASE response = "200" -> @
                    [] response = ConnectionError ->
                         ContextError("Unable to connect to the Autoreduce job submission service.")
                    [] response = Exception -> ContextError("Encountered unexpected error")
                    [] OTHER -> ContextError("Unknown error encountered")]

\* the checks a request passes before the runs are looked at; failing names
\* the first of the later checks that fails, "none" if none does
run_confirmation(request, table, response) ==
    LET context == [error |-> NoReason, runs |-> <<>>, posted |-> <<>>]
        run_numbers == request.run_numbers
        related_runs == related_runs_of(table, run_numbers)
        rb_number == {r.rb : r \in related_runs}
        return(text) == [context EXCEPT !.error = ContextError(text)]
    IN  IF request.parsed = SyntaxError THEN return("exception.msg")
        ELSE IF run_numbers = <<>> THEN return("Could not correctly parse range input")
        ELSE IF Len(run_numbers) > max_runs(request.user)
        THEN return("runs were requested, but only ... can be queued at a time")
        ELSE IF Cardinality(rb_number) > 1
        THEN return("Runs span multiple experiment numbers")
        ELSE IF request.failing = "default_variables" THEN return("err")
        ELSE IF request.failing = "arguments" THEN return("ValueError")
        ELSE IF request.failing = "auth_token"
        THEN return("User is not authorized to submit batch runs.")
        ELSE IF request.failing = "run_description"
        THEN return("The description contains ... characters")
        ELSE post_runs(check_each_run(context, run_numbers, related_runs),
                       run_numbers, response)

\* the run numbers first .. first + n - 1
RunRange(first, n) == [i \in 1..n |-> first + i - 1]

PreviousRun(run_number, run_version, status, rb, batch_run) ==
    [run_number |-> run_number, run_version |-> run_version, status |-> status,
     rb |-> rb, batch_run |-> batch_run]

\* the runs of the instrument the store holds
PreviousRunTables ==
    { {},
      {PreviousRun(100, 0, StatusCompleted, 1234567, FALSE)},
      {PreviousRun(100, 0, StatusQueued, 1234567, FALSE)},
      {PreviousRun(100, 0, StatusQueued, 1234567, FALSE),
       PreviousRun(100, 1, StatusCompleted, 1234567, FALSE)},
      {PreviousRun(100, 0, StatusCompleted, 1234567, FALSE),
       PreviousRun(100, 1, StatusQueued, 1234567, TRUE)},
      {PreviousRun(100, 0, StatusCompleted, 1234567, FALSE),
       PreviousRun(101, 0, StatusError, 1234567, FALSE)},
      {PreviousRun(100, 0, StatusCompleted, 1234567, FALSE),
       PreviousRun(101, 0, StatusQueued, 1234567, FALSE)},
      {PreviousRun(100, 0, StatusCompleted, 1234567, FALSE),
       PreviousRun(101, 0, StatusCompleted, 7654321, FALSE)} }

Users ==
    { [is_superuser |-> TRUE, is_staff |-> TRUE],
      [is_superuser |-> FALSE, is_staff |-> TRUE],
      [is_superuser |-> FALSE, is_staff |-> FALSE] }

\* request.POST.get('runs') as parse_user_run_numbers reads it: a
\* SyntaxError, or the run numbers, none if the input holds none
ParsedRuns ==
    { [parsed |-> SyntaxError, run_numbers |-> <<>>] }
    \cup { [parsed |-> "ok", run_numbers |-> RunRange(100, n)] :
              n \in {0, 1, 2, MaxRunsOther, MaxRunsOther + 1, MaxRunsStaff, MaxRunsStaff + 1,
                     MaxRunsSuperuser, MaxRunsSuperuser + 1} }
    \cup { [parsed |-> "ok", run_numbers |-> <<101>>],
           [parsed |-> "ok", run_numbers |-> <<101, 100>>] }

Failing == {"none", "default_variables", "arguments", "auth_token", "run_description"}
Responses == {"200", "400", ConnectionError, Exception}

NoConfirmation ==
    [pc |-> "none", parsed |-> "ok", run_numbers |-> <<>>,
     user |-> [is_superuser |-> FALSE, is_staff |-> FALSE], failing |-> "none",
     table |-> {}, error |-> NoReason, runs |-> <<>>, posted |-> <<>>]

\* the view handles the request and returns its context
RunConfirmation ==
    /\ confirmation.pc = "requested"
    /\ \E response \in Responses :
          LET context == run_confirmation(confirmation, confirmation.table, response)
          IN  confirmation' = [confirmation EXCEPT !.pc = "returned",
                                                  !.error = context.error,
                                                  !.runs = context.runs,
                                                  !.posted = context.posted]
    /\ UNCHANGED <<instruments, experiments, runs, dataLocs, redLocs, clock, last, workers,
                   ivars, resolved, merged, rerun, argsTable, posting, filtered>>

\* ------------------------------------------------ configure_new_runs_post
Clients == {"c1", "c2"}
DoesNotExist == "DoesNotExist"

\* int(request.POST.get(key)) if the field is filled in, else None
int_or_none(field) == IF field = <<>> THEN Null ELSE IntOf(field)
\* "not start": None and 0 alike
falsy(number) == number = Null \/ number = 0

\* json.dumps of the merged arguments
json_dumps(args_for_range) == <<"json", args_for_range>>

\* reduce_vars.py of the instrument, and the forms a client can post
PostedModule == [standard_vars |-> <<Item("a", One)>>, advanced_vars |-> <<>>,
                 variable_help |-> NoHelp]
PostedVariables ==
    { [standard_vars |-> GivenDict(s), advanced_vars |-> GivenDict(<<>>)] :
        s \in {<<Item("a", One)>>, <<Item("a", Two)>>, <<Item("b", Two)>>} }
PostedInstruments == {"WISH"}
PostedRunStarts == {<<>>, <<"0">>, <<"1", "0", "0">>}
PostedExperimentReferences == {<<>>, <<"1", "2", "3", "4", "5", "6", "7">>}

\* a ReductionArguments row
ArgumentsRow(instrument, raw, kwargs) ==
    [instrument |-> instrument, raw |-> raw,
     start_run |-> IF kwargs.key = "start_run" THEN kwargs.value ELSE Null,
     experiment_reference |-> IF kwargs.key = "experiment_reference" THEN kwargs.value
                              ELSE Null]

\* ReductionArguments.objects.get(instrument=instrument, **kwargs): the row,
\* DoesNotExist or MultipleObjectsReturned
get_arguments(table, instrument, kwargs) ==
    LET ids == {id \in 1..Len(table) : /\ table[id].instrument = instrument
                                       /\ table[id][kwargs.key] = kwargs.value}
    IN  IF ids = {} THEN [fault |-> DoesNotExist, id |-> 0]
        ELSE IF Cardinality(ids) > 1 THEN [fault |-> MultipleObjectsReturned, id |-> 0]
        ELSE [fault |-> NoFault, id |-> CHOOSE id \in ids : TRUE]

\* "if start: ... else: ...": the key the arguments are stored under
kwargs_of(start, experiment_reference) ==
    IF ~falsy(start) THEN [key |-> "start_run", value |-> start]
    ELSE [key |-> "experiment_reference", value |-> experiment_reference]

NoPost ==
    [pc |-> "idle", instrument |-> "", run_start |-> <<>>,
     experiment_reference_number |-> <<>>,
     all_vars |-> <<>>, kwargs |-> <<>>, arguments_json |-> <<>>, found |-> 0,
     fault |-> NoFault, message |-> "", wrote |-> 0, posts |-> 0]

\* a client posts the form of an instrument
Post(client) ==
    /\ posting[client].pc \in {"idle", "done"}
    /\ posting[client].posts < MaxPosts
    /\ \E instrument \in PostedInstruments, run_start \in PostedRunStarts,
          experiment_reference_number \in PostedExperimentReferences,
          all_vars \in PostedVariables :
          posting' = [posting EXCEPT ![client] =
                         [NoPost EXCEPT !.pc = "posted", !.instrument = instrument,
                                        !.run_start = run_start,
                                        !.experiment_reference_number =
                                            experiment_reference_number,
                                        !.all_vars = all_vars,
                                        !.posts = posting[client].posts + 1]]
    /\ UNCHANGED <<instruments, experiments, runs, dataLocs, redLocs, clock, last, workers,
                   ivars, resolved, merged, rerun, confirmation, argsTable, filtered>>

\* configure_new_runs_post up to the answer of ReductionArguments.objects.get
\* in update_or_create
Lookup(client) ==
    /\ posting[client].pc = "posted"
    /\ LET post == posting[client]
           start == int_or_none(post.run_start)
           experiment_reference == int_or_none(post.experiment_reference_number)
           args_for_range == merge_arguments(post.all_vars, PostedModule)
           kwargs == kwargs_of(start, experiment_reference)
           found == get_arguments(argsTable, post.instrument, kwargs)
       IN  posting' = [posting EXCEPT ![client] =
              IF falsy(start) /\ falsy(experiment_reference)
              THEN [post EXCEPT !.pc = "done",
                        !.message = "Invalid run range or experiment reference submitted."]
              ELSE IF args_for_range.fault = KeyError
              THEN [post EXCEPT !.pc = "done",
                        !.message = "Error encountered when processing variable"]
              ELSE IF found.fault = MultipleObjectsReturned
              THEN [post EXCEPT !.pc = "done", !.fault = MultipleObjectsReturned,
                                !.kwargs = kwargs]
              ELSE [post EXCEPT !.pc = "found", !.kwargs = kwargs,
                                !.arguments_json = json_dumps(args_for_range.reduction_args),
                                !.found = found.id]]
    /\ UNCHANGED <<instruments, experiments, runs, dataLocs, redLocs, clock, last, workers,
                   ivars, resolved, merged, rerun, confirmation, argsTable, filtered>>

\* the rest of update_or_create: args.save() of the row found, or
\* ReductionArguments.objects.create after DoesNotExist; then the redirect
Write(client) ==
    /\ posting[client].pc = "found"
    /\ LET post == posting[client]
       IN  /\ argsTable' =
                IF post.found # 0
                THEN [argsTable EXCEPT ![post.found].raw = post.arguments_json]
                ELSE Append(argsTable,
                            ArgumentsRow(post.instrument, post.arguments_json, post.kwargs))
           /\ posting' = [posting EXCEPT ![client] =
                             [post EXCEPT !.pc = "done",
                                          !.wrote = IF post.found # 0 THEN post.found
                                                    ELSE Len(argsTable) + 1]]
    /\ UNCHANGED <<instruments, experiments, runs, dataLocs, redLocs, clock, last, workers,
                   ivars, resolved, merged, rerun, confirmation, filtered>>

\* ------------------------------------------------------ ReductionRunFilter
ValidationError == "ValidationError"
IndexError == "IndexError"

\* a string is a sequence of characters
Chars == {"1", "2", ",", "-"}
Digit(char) == char \in {"1", "2"}
Contains(value, char) == \E i \in 1..Len(value) : value[i] = char

\* the length of the longest prefix of digits
DigitsAtStart(value) ==
    Cardinality({k \in 1..Len(value) : \A j \in 1..k : Digit(value[j])})

\* re.match('\d+<sep>\d+', value): the pattern is looked for at the start of
\* the value and need not reach its end
re_match_pair(value, sep) ==
    LET n == DigitsAtStart(value)
    IN  /\ n >= 1
        /\ Len(value) >= n + 2
        /\ value[n + 1] = sep
        /\ Digit(value[n + 2])

\* re.match('\d', value)
re_match_digit(value) == Len(value) >= 1 /\ Digit(value[1])

\* value.split(sep)
RECURSIVE split(_, _)
split(value, sep) ==
    IF ~Contains(value, sep) THEN <<value>>
    ELSE LET i == CHOOSE i \in 1..Len(value) :
                     value[i] = sep /\ \A j \in 1..(i - 1) : value[j] # sep
         IN  <<SubSeq(value, 1, i - 1)>> \o split(SubSeq(value, i + 1, Len(value)), sep)

\* validate_run_number: NoFault, or the ValidationError raised. A non-empty
\* string such as "-" is true, so the third test is '"," in value'.
validate_run_number(value) ==
    IF Contains(value, ",") /\ ~Contains(value, "-")
    THEN IF re_match_pair(value, ",") THEN NoFault ELSE ValidationError
    ELSE IF Contains(value, "-") /\ ~Contains(value, ",")
    THEN IF re_match_pair(value, "-") THEN NoFault ELSE ValidationError
    ELSE IF Len(<<"-">>) > 0 /\ Contains(value, ",")
    THEN IF re_match_pair(value, "-") THEN NoFault ELSE ValidationError
    ELSE IF re_match_digit(value) THEN NoFault ELSE ValidationError

Q(lookup, values) == [lookup |-> lookup, values |-> values]

\* the loop over the comma-separated pieces: seperated_pair[1] of a piece
\* without a hyphen is an IndexError
RECURSIVE add_each_range(_, _)
add_each_range(result, list_values) ==
    IF list_values = <<>> THEN result
    ELSE LET seperated_pair == split(Head(list_values), "-")
         IN  IF Len(seperated_pair) < 2 THEN [result EXCEPT !.fault = IndexError]
             ELSE add_each_range(
                     [result EXCEPT !.query =
                         Append(@, Q("range", <<seperated_pair[1], seperated_pair[2]>>))],
                     Tail(list_values))

\* filter_run_number: [fault, query], the query a disjunction of Q objects and
\* empty when the queryset is returned as it came
filter_run_number(value) ==
    IF value = <<>> THEN [fault |-> NoFault, query |-> <<>>]
    ELSE IF Contains(value, ",") /\ ~Contains(value, "-")
    THEN [fault |-> NoFault, query |-> <<Q("in", split(value, ","))>>]
    ELSE IF Contains(value, "-") /\ ~Contains(value, ",")
    THEN LET list_values == split(value, "-")
         IN  [fault |-> NoFault, query |-> <<Q("range", <<list_values[1], list_values[2]>>)>>]
    ELSE IF Len(<<"-">>) > 0 /\ Contains(value, ",")
    THEN add_each_range([fault |-> NoFault, query |-> <<>>], split(value, ","))
    ELSE [fault |-> NoFault, query |-> <<Q("exact", <<value>>)>>]

RunNumberValues == UNION {[1..n -> Chars] : n \in 0..MaxLen}

NoFilter == [pc |-> "none", value |-> <<>>, validation |-> NoFault, fault |-> NoFault,
             query |-> <<>>]

\* the run_number field of the filter form: the validators of a CharFilter
\* are run on a value that is not empty, and the filter method is called with
\* a value that passed
FilterRunNumber ==
    /\ filtered.pc = "given"
    /\ LET validation == IF filtered.value = <<>> THEN NoFault
                         ELSE validate_run_number(filtered.value)
           result == filter_run_number(filtered.value)
       IN  filtered' =
              IF validation # NoFault
              THEN [filtered EXCEPT !.pc = "invalid", !.validation = validation]
              ELSE [filtered EXCEPT !.pc = "filtered", !.fault = result.fault,
                                    !.query = result.query]
    /\ UNCHANGED <<instruments, experiments, runs, dataLocs, redLocs, clock, last, workers,
                   ivars, resolved, merged, rerun, confirmation, argsTable, posting>>

\* ----------------------------------------------------------- specification
\* An instrument is unknown to the store, or was stored inactive and paused by
\* the web application; the other rows arise from these as events are handled.
InstrumentRows ==
    { [exists |-> FALSE, is_active |-> FALSE, is_paused |-> FALSE],
      [exists |-> TRUE, is_active |-> FALSE, is_paused |-> TRUE] }

Init ==
    /\ instruments \in [InstrumentNames -> InstrumentRows]
    /\ experiments = {}
    /\ runs = <<>>
    /\ dataLocs = <<>>
    /\ redLocs = <<>>
    /\ clock = 0
    /\ last = [op |-> "init", run |-> 0, pre |-> "none", fault |-> NoFault,
               launches |-> 0, saves |-> 0, asked |-> NoAnswers]
    /\ workers = [w \in Workers |-> IdleWorker]
    /\ ivars = <<>>
    /\ resolved = NoCall
    /\ merged = NoMerge
    /\ rerun = NoRerun
    /\ confirmation = NoConfirmation
    /\ argsTable = <<>>
    /\ posting = [client \in Clients |-> NoPost]
    /\ filtered = NoFilter

Next ==
    \/ DataReady
    \/ ReductionStarted
    \/ ReductionComplete
    \/ ReductionSkipped
    \/ ReductionError

Spec == Init /\ [][Next]_vars

NextWorkers ==
    \E w \in Workers :
        \/ WorkerLookup(w)
        \/ WorkerInsert(w)
        \/ WorkerOnwards(w)

SpecWorkers == Init /\ [][NextWorkers]_vars

\* The row an earlier run left: variable a of run 100, created with the
\* script's value 1 and tracking the script.
StoredForRun ==
    [name |-> "a", value |-> <<"1">>, type |-> "number", help_text |-> <<>>,
     is_advanced |-> FALSE, instrument_id |-> 1, tracks_script |-> TRUE,
     experiment_reference |-> Null, start_run |-> 100]

\* A row of the kind Q(experiment_reference=...) looks for: variable a fixed
\* to 2 for experiment 1234567, not tracking the script. The resolver never
\* stores such a row itself; it reads the ones the table holds.
StoredForExperiment ==
    [name |-> "a", value |-> <<"2">>, type |-> "number", help_text |-> <<>>,
     is_advanced |-> FALSE, instrument_id |-> 1, tracks_script |-> FALSE,
     experiment_reference |-> 1234567, start_run |-> Null]

\* The table is empty, or holds the row of run 100, or the row of the
\* experiment, or both.
StoredVariables ==
    { <<>>, <<StoredForRun>>, <<StoredForExperiment>>, <<StoredForRun, StoredForExperiment>> }

InitVariables ==
    /\ instruments = [name \in InstrumentNames |->
                         [exists |-> FALSE, is_active |-> FALSE, is_paused |-> FALSE]]
    /\ experiments = {}
    /\ runs = <<>>
    /\ dataLocs = <<>>
    /\ redLocs = <<>>
    /\ clock = 0
    /\ last = [op |-> "init", run |-> 0, pre |-> "none", fault |-> NoFault,
               launches |-> 0, saves |-> 0, asked |-> NoAnswers]
    /\ workers = [w \in Workers |-> IdleWorker]
    /\ ivars \in StoredVariables
    /\ resolved = NoCall
    /\ merged = NoMerge
    /\ rerun = NoRerun
    /\ confirmation = NoConfirmation
    /\ argsTable = <<>>
    /\ posting = [client \in Clients |-> NoPost]
    /\ filtered = NoFilter

NextVariables ==
    \/ CreateRunVariables
    \/ FindOrMakeVariables

SpecVariables == InitVariables /\ [][NextVariables]_vars

InitArguments ==
    /\ instruments = [name \in InstrumentNames |->
                         [exists |-> FALSE, is_active |-> FALSE, is_paused |-> FALSE]]
    /\ experiments = {}
    /\ runs = <<>>
    /\ dataLocs = <<>>
    /\ redLocs = <<>>
    /\ clock = 0
    /\ last = [op |-> "init", run |-> 0, pre |-> "none", fault |-> NoFault,
               launches |-> 0, saves |-> 0, asked |-> NoAnswers]
    /\ workers = [w \in Workers |-> IdleWorker]
    /\ ivars = <<>>
    /\ resolved = NoCall
    /\ merged \in {[NoMerge EXCEPT !.pc = "called", !.message = message, !.module = module] :
                     message \in MessageReductionArguments, module \in ReduceVarsModules}
    /\ rerun = NoRerun
    /\ confirmation = NoConfirmation
    /\ argsTable = <<>>
    /\ posting = [client \in Clients |-> NoPost]
    /\ filtered = NoFilter

NextArguments == MergeArguments

SpecArguments == InitArguments /\ [][NextArguments]_vars

InitResubmission ==
    /\ instruments = [name \in InstrumentNames |->
                         [exists |-> FALSE, is_active |-> FALSE, is_paused |-> FALSE]]
    /\ experiments = {}
    /\ runs = <<>>
    /\ dataLocs = <<>>
    /\ redLocs = <<>>
    /\ clock = 0
    /\ last = [op |-> "init", run |-> 0, pre |-> "none", fault |-> NoFault,
               launches |-> 0, saves |-> 0, asked |-> NoAnswers]
    /\ workers = [w \in Workers |-> IdleWorker]
    /\ ivars = <<>>
    /\ resolved = NoCall
    /\ merged = NoMerge
    /\ \E run_number \in VariableRunNumbers :
          \E matching \in MatchingPreviousRuns(run_number) :
              rerun = [NoRerun EXCEPT !.pc = "called", !.run_number = run_number,
                                      !.matching_previous_runs = matching]
    /\ confirmation = NoConfirmation
    /\ argsTable = <<>>
    /\ posting = [client \in Clients |-> NoPost]
    /\ filtered = NoFilter

NextResubmission == FindReasonToAvoidReRun

SpecResubmission == InitResubmission /\ [][NextResubmission]_vars

InitConfirmation ==
    /\ instruments = [name \in InstrumentNames |->
                         [exists |-> FALSE, is_active |-> FALSE, is_paused |-> FALSE]]
    /\ experiments = {}
    /\ runs = <<>>
    /\ dataLocs = <<>>
    /\ redLocs = <<>>
    /\ clock = 0
    /\ last = [op |-> "init", run |-> 0, pre |-> "none", fault |-> NoFault,
               launches |-> 0, saves |-> 0, asked |-> NoAnswers]
    /\ workers = [w \in Workers |-> IdleWorker]
    /\ ivars = <<>>
    /\ resolved = NoCall
    /\ merged = NoMerge
    /\ rerun = NoRerun
    /\ \E parsed \in ParsedRuns, user \in Users, failing \in Failing,
          table \in PreviousRunTables :
          confirmation = [NoConfirmation EXCEPT !.pc = "requested",
                                                !.parsed = parsed.parsed,
                                                !.run_numbers = parsed.run_numbers,
                                                !.user = user, !.failing = failing,
                                                !.table = table]
    /\ argsTable = <<>>
    /\ posting = [client \in Clients |-> NoPost]
    /\ filtered = NoFilter

NextConfirmation == RunConfirmation

SpecConfirmation == InitConfirmation /\ [][NextConfirmation]_vars

InitPosting ==
    /\ instruments = [name \in InstrumentNames |->
                         [exists |-> FALSE, is_active |-> FALSE, is_paused |-> FALSE]]
    /\ experiments = {}
    /\ runs = <<>>
    /\ dataLocs = <<>>
    /\ redLocs = <<>>
    /\ clock = 0
    /\ last = [op |-> "init", run |-> 0, pre |-> "none", fault |-> NoFault,
               launches |-> 0, saves |-> 0, asked |-> NoAnswers]
    /\ workers = [w \in Workers |-> IdleWorker]
    /\ ivars = <<>>
    /\ resolved = NoCall
    /\ merged = NoMerge
    /\ rerun = NoRerun
    /\ confirmation = NoConfirmation
    /\ argsTable = <<>>
    /\ posting = [client \in Clients |-> NoPost]
    /\ filtered = NoFilter

NextPosting ==
    \/ \E client \in Clients : Post(client)
    \/ \E client \in Clients : Lookup(client)
    \/ \E client \in Clients : Write(client)

SpecPosting == InitPosting /\ [][NextPosting]_vars

InitFilter ==
    /\ instruments = [name \in InstrumentNames |->
                         [exists |-> FALSE, is_active |-> FALSE, is_paused |-> FALSE]]
    /\ experiments = {}
    /\ runs = <<>>
    /\ dataLocs = <<>>
    /\ redLocs = <<>>
    /\ clock = 0
    /\ last = [op |-> "init", run |-> 0, pre |-> "none", fault |-> NoFault,
               launches |-> 0, saves |-> 0, asked |-> NoAnswers]
    /\ workers = [w \in Workers |-> IdleWorker]
    /\ ivars = <<>>
    /\ resolved = NoCall
    /\ merged = NoMerge
    /\ rerun = NoRerun
    /\ confirmation = NoConfirmation
    /\ argsTable = <<>>
    /\ posting = [client \in Clients |-> NoPost]
    /\ \E value \in RunNumberValues :
          filtered = [NoFilter EXCEPT !.pc = "given", !.value = value]

NextFilter == FilterRunNumber

SpecFilter == InitFilter /\ [][NextFilter]_vars

\* ------------------------------------------------------------------ claims
RunIds == 1..Len(runs)
Terminal == {StatusCompleted, StatusError, StatusSkipped}

\* C1: reduction_started on a Completed, Skipped or Processing run raises
\* InvalidStateException, writes nothing and leaves the status as it was; every
\* status Processing a run was persisted with follows Queued or Error.
C1_StartOnlyFromQueuedOrError ==
    /\ (last.op = "reduction_started"
            /\ last.pre \in {StatusCompleted, StatusSkipped, StatusProcessing})
        => /\ last.fault = InvalidStateException
           /\ last.saves = 0
           /\ runs[last.run].status = last.pre
    /\ \A id \in RunIds : \A i \in 1..Len(runs[id].hist) :
            runs[id].hist[i] = StatusProcessing
                => i > 1 /\ runs[id].hist[i - 1] \in {StatusQueued, StatusError}

C1_Witness ==
    /\ last.op = "reduction_started"
    /\ last.pre = StatusCompleted
    /\ last.fault = InvalidStateException
    /\ runs[last.run].hist = <<StatusQueued, StatusProcessing, StatusCompleted>>

\* C2: reduction_complete on a run that is not Processing raises
\* InvalidStateException and writes nothing (the run row, its finish time
\* included, and the ReductionLocation table stay as they were); every status
\* Completed a run was persisted with follows Processing directly.
C2_CompleteOnlyFromProcessing ==
    /\ [][ (last'.op = "reduction_complete"
                /\ runs[last'.run].status # StatusProcessing)
            => /\ last'.fault = InvalidStateException
               /\ runs' = runs
               /\ redLocs' = redLocs ]_vars
    /\ [](\A id \in RunIds : \A i \in 1..Len(runs[id].hist) :
            runs[id].hist[i] = StatusCompleted
                => i > 1 /\ runs[id].hist[i - 1] = StatusProcessing)

C2_Witness ==
    /\ last.op = "reduction_complete"
    /\ last.pre = StatusQueued
    /\ last.fault = InvalidStateException
    /\ last.asked.reduction_data.present
    /\ Len(last.asked.reduction_data.paths) > 0
    /\ redLocs = <<>>

\* C3 as claimed: reduction_error on a run that is Queued, Completed, Skipped
\* or Error raises InvalidStateException and leaves the status as it was.
C3_ErrorRequiresProcessing ==
    (last.op = "reduction_error"
        /\ last.pre \in {StatusQueued, StatusCompleted, StatusSkipped, StatusError})
    => /\ last.fault = InvalidStateException
       /\ runs[last.run].status = last.pre

\* C3 as the code has it: reduction_error checks no status. Whatever the status
\* of the run, it never raises InvalidStateException; the run is written with
\* status Error, the finish time and the message text, unless the store rejects
\* the write, and then the row stays as it was.
C3_ErrorFromAnyStatus ==
    /\ [](last.op = "reduction_error"
            => /\ last.fault \in {NoFault, IntegrityError}
               /\ last.fault = NoFault
                    => /\ runs[last.run].status = StatusError
                       /\ runs[last.run].finished = clock
                       /\ runs[last.run].message = last.asked.text)
    /\ [][ (last'.op = "reduction_error" /\ last'.fault # NoFault)
            => runs' = runs ]_vars

C3_Witness ==
    /\ last.op = "reduction_error"
    /\ last.pre = StatusCompleted
    /\ last.fault = NoFault
    /\ runs[last.run].status = StatusError

\* C4 as claimed: once a run is Completed, Error or Skipped no event changes
\* its status.
C4_TerminalStatusesNeverLeft ==
    [][ \A id \in RunIds :
            runs[id].status \in Terminal => runs'[id].status = runs[id].status ]_vars

\* C4 as the code has it: a Completed or Skipped run is left alone by
\* reduction_started and reduction_complete (both raise), and data_ready
\* touches no stored run. A terminal status changes only in these ways: an
\* Error run is re-started into Processing by reduction_started, and
\* reduction_error and reduction_skipped, which check nothing, overwrite any
\* status with Error and Skipped.
C4_TerminalLeftOnlyByRestartOrOverwrite ==
    [][ \A id \in RunIds :
            (runs[id].status \in Terminal /\ runs'[id].status # runs[id].status)
            => /\ last'.run = id
               /\ \/ /\ last'.op = "reduction_started"
                     /\ runs[id].status = StatusError
                     /\ runs'[id].status = StatusProcessing
                  \/ /\ last'.op = "reduction_error"
                     /\ runs'[id].status = StatusError
                  \/ /\ last'.op = "reduction_skipped"
                     /\ runs'[id].status = StatusSkipped ]_vars

C4_Witness ==
    /\ last.op = "reduction_skipped"
    /\ last.pre = StatusCompleted
    /\ runs[last.run].status = StatusSkipped

\* ------------------------------------------------- claims about data_ready
Count(table, keep(_)) == Cardinality({k \in 1..Len(table) : keep(table[k])})

DataLocationsOf(id) == Count(dataLocs, LAMBDA row : row.run = id)
ReductionLocationsOf(id) == Count(redLocs, LAMBDA row : row.run = id)

\* the last event was a data_ready that met no store rejection
ReadyHandled == last.op = "data_ready" /\ last.fault # IntegrityError

\* earlier rows of the same run number under the same experiment
EarlierVersions(id) ==
    {j \in 1..(id - 1) : /\ runs[j].run_number = runs[id].run_number
                         /\ runs[j].rb = runs[id].rb}

\* C5: data_ready for an unpaused instrument, with a valid rb number, the
\* script present, the variables resolved, a valid outbound message, a launch
\* that succeeds and a returned message without error text, ends without a
\* fault; the run's persisted statuses are exactly Queued, Processing,
\* Completed, one launch was made, the run owns one DataLocation and one
\* ReductionLocation per listed output path, and its version is 0 when the
\* store held no earlier run of that run number under that experiment.
C5_HappyPath ==
    (/\ ReadyHandled
     /\ last.asked.rb_valid = Yes
     /\ last.asked.is_paused = No
     /\ last.asked.script_present = Yes
     /\ last.asked.resolve = "ok"
     /\ last.asked.valid = Yes
     /\ last.asked.process_finished = Yes
     /\ last.asked.text = NoText)
    => /\ last.fault = NoFault
       /\ last.run = Len(runs)
       /\ last.launches = 1
       /\ runs[last.run].hist = <<StatusQueued, StatusProcessing, StatusCompleted>>
       /\ runs[last.run].status = StatusCompleted
       /\ EarlierVersions(last.run) = {} => runs[last.run].version = 0
       /\ DataLocationsOf(last.run) = 1
       /\ \E k \in 1..Len(dataLocs) :
            dataLocs[k].run = last.run /\ dataLocs[k].file_path \in DataPaths
       /\ ReductionLocationsOf(last.run) =
            IF last.asked.reduction_data.present
            THEN Len(last.asked.reduction_data.paths) ELSE 0

C5_Witness ==
    /\ last.op = "data_ready"
    /\ last.fault = NoFault
    /\ last.run = 1
    /\ runs[1].version = 0
    /\ runs[1].hist = <<StatusQueued, StatusProcessing, StatusCompleted>>
    /\ DataLocationsOf(1) = 1
    /\ ReductionLocationsOf(1) = 1
    /\ last.asked.reduction_data.paths # <<>>

\* C6: data_ready for a paused instrument creates the run with status Skipped
\* and never persists it with another status; when the event ends the run is
\* Skipped and no launch was made.
C6_PausedIsSkipped ==
    (last.op = "data_ready" /\ last.asked.is_paused = Yes /\ last.run # 0)
    => /\ runs[last.run].hist[1] = StatusSkipped
       /\ \A i \in 1..Len(runs[last.run].hist) :
            runs[last.run].hist[i] \notin {StatusQueued, StatusProcessing}
       /\ runs[last.run].status = StatusSkipped
       /\ last.launches = 0
       /\ last.asked.process_finished = Unasked

C6_Witness ==
    /\ last.op = "data_ready"
    /\ last.asked.is_paused = Yes
    /\ last.asked.valid = Yes
    /\ last.fault = NoFault
    /\ runs[last.run].hist = <<StatusSkipped, StatusSkipped>>

C9_MissingScriptMarksError ==
    (last.op = "data_ready" /\ last.asked.script_present = No)
    => /\ last.fault = InvalidStateException
       /\ last.run # 0
       /\ runs[last.run].status = StatusError
       /\ last.launches = 0

\* C10 as claimed: when the variables of the persisted run cannot be resolved
\* because of the script defaults, the run is Error when data_ready exits.
C10_ResolveFaultMarksError ==
    (last.op = "data_ready" /\ last.asked.resolve = ConfigurationFault)
    => /\ last.fault = ConfigurationFault
       /\ runs[last.run].status = StatusError

\* ---------------------------------------------- claims about the dispatch
\* C11: when the validation of the outbound message fails, the run ends the
\* event Skipped, whether the instrument is paused or not: the handler returns
\* without an exception, the run never passes through Processing and the
\* execution collaborator is not launched. (A store that rejects the write of
\* Skipped raises IntegrityError instead; nothing is launched then either.)
C11_InvalidMessageIsSkipped ==
    (last.op = "data_ready" /\ last.asked.valid = No) =>
        /\ last.launches = 0
        /\ last.run \in RunIds
        /\ StatusProcessing \notin {runs[last.run].hist[i] :
                                        i \in 1..Len(runs[last.run].hist)}
        /\ last.fault \in {NoFault, IntegrityError}
        /\ last.fault = NoFault =>
              /\ runs[last.run].status = StatusSkipped
              /\ runs[last.run].hist \in {<<StatusQueued, StatusSkipped>>,
                                          <<StatusSkipped, StatusSkipped>>}
              /\ runs[last.run].started = 0
              /\ runs[last.run].finished = clock
              /\ ReductionLocationsOf(last.run) = 0
        /\ last.fault = IntegrityError => runs[last.run].hist \in {<<StatusQueued>>, <<StatusSkipped>>}

\* an invalid message of an instrument that is not paused was skipped
C11_Witness ==
    /\ last.op = "data_ready"
    /\ last.asked.valid = No
    /\ last.asked.is_paused = No
    /\ last.fault = NoFault
    /\ last.run \in RunIds
    /\ runs[last.run].hist = <<StatusQueued, StatusSkipped>>

\* C12: when the execution collaborator reports that the process could not be
\* launched, data_ready returns without an exception and the run stays as
\* reduction_started left it: Processing, started at this event, no finish
\* time, no ReductionLocation, and no write after the one of Processing.
C12_FailedLaunchLeavesProcessing ==
    (last.op = "data_ready" /\ last.asked.process_finished = No) =>
        /\ last.fault = NoFault
        /\ last.launches = 1
        /\ last.run \in RunIds
        /\ runs[last.run].status = StatusProcessing
        /\ runs[last.run].hist = <<StatusQueued, StatusProcessing>>
        /\ runs[last.run].started = clock
        /\ runs[last.run].finished = 0
        /\ runs[last.run].message = NoText
        /\ ReductionLocationsOf(last.run) = 0
        /\ last.saves = 3

C12_Witness ==
    /\ last.op = "data_ready"
    /\ last.asked.process_finished = No
    /\ last.run \in RunIds
    /\ runs[last.run].status = StatusProcessing
    /\ runs[last.run].started = clock

\* C13: once the collaborator has run, the run ends Error exactly when the
\* returned message carries text (message.message is not None) and Completed
\* otherwise, as far as the store accepts the writes. A Completed run owns one
\* ReductionLocation per output location of the returned message, in order,
\* and none when the list is absent; an Error run owns none.
C13_OutcomeFollowsReturnedText ==
    (ReadyHandled /\ last.asked.process_finished = Yes) =>
        /\ last.fault = NoFault
        /\ last.run \in RunIds
        /\ runs[last.run].status \in {StatusError, StatusCompleted}
        /\ runs[last.run].status = StatusError <=> last.asked.text # NoText
        /\ runs[last.run].status = StatusCompleted <=> last.asked.text = NoText
        /\ runs[last.run].hist = <<StatusQueued, StatusProcessing, runs[last.run].status>>
        /\ runs[last.run].message = last.asked.text
        /\ runs[last.run].status = StatusCompleted =>
              SelectSeq(redLocs, LAMBDA row : row.run = last.run)
                  = [i \in 1..Len(last.asked.reduction_data.paths) |->
                        [run |-> last.run, file_path |-> last.asked.reduction_data.paths[i]]]
        /\ runs[last.run].status = StatusError => ReductionLocationsOf(last.run) = 0

\* a run that completed with an output location, after one that ended in Error
\* although its message listed an output location
C13_Witness ==
    /\ ReadyHandled
    /\ last.asked.process_finished = Yes
    /\ last.run \in RunIds
    /\ runs[last.run].status = StatusCompleted
    /\ ReductionLocationsOf(last.run) = 1
    /\ \E id \in RunIds :
          /\ runs[id].hist = <<StatusQueued, StatusProcessing, StatusError>>
          /\ ReductionLocationsOf(id) = 0

\* ------------------------------------------------- claims about the launch
RECURSIVE SumTo(_, _)
SumTo(f, n) == IF n = 0 THEN 0 ELSE f[n] + SumTo(f, n - 1)

\* how many times Processing was persisted, over all runs
ProcessingWrites(rs) ==
    SumTo([i \in 1..Len(rs) |->
              Cardinality({k \in 1..Len(rs[i].hist) : rs[i].hist[k] = StatusProcessing})],
          Len(rs))

StoreWrites(rs, ds, reds) ==
    SumTo([i \in 1..Len(rs) |-> Len(rs[i].hist)], Len(rs)) + Len(ds) + Len(reds)

SafeSaveFailed(l) == l.fault = IntegrityError /\ l.asked.resolve # IntegrityError

\* C15: an IntegrityError met by safe_save reaches the caller. Every
\* safe_save call of an event wrote its row except the one that failed, which
\* was the event's last: it is not retried, and after it the event writes
\* nothing, persists no status and launches nothing. The IntegrityError of
\* the variable resolution is raised again in the same way.
C15_IntegrityFaultEndsTheEvent ==
    [][ LET written == StoreWrites(runs', dataLocs', redLocs')
                          - StoreWrites(runs, dataLocs, redLocs)
            l == last'
        IN  /\ ~SafeSaveFailed(l) => written = l.saves
            /\ SafeSaveFailed(l) =>
                  /\ written = l.saves - 1
                  /\ l.op # "data_ready" =>
                        /\ runs' = runs
                        /\ Len(redLocs') = Len(redLocs) + l.saves - 1
                        /\ l.launches = 0
                  /\ l.op = "data_ready" =>
                        /\ l.saves = 1 => (runs' = runs /\ l.run = 0)
                        /\ l.saves > 1 => l.run = Len(runs) + 1
                        /\ l.saves \in {2, 3} =>
                              /\ Len(runs'[l.run].hist) = 1
                              /\ Len(dataLocs') = Len(dataLocs) + l.saves - 2
                              /\ redLocs' = redLocs
                              /\ l.launches = 0
                        /\ l.saves > 3 =>
                              /\ runs'[l.run].hist = <<StatusQueued, StatusProcessing>>
                              /\ Len(redLocs') = Len(redLocs) + l.saves - 4
                              /\ l.launches = 1
            /\ l.asked.resolve = IntegrityError =>
                  /\ l.fault = IntegrityError
                  /\ l.saves = 2
                  /\ l.launches = 0
                  /\ Len(runs'[l.run].hist) = 1
      ]_vars

\* the store rejected a write made after the launch: the run stays Processing
C15_Witness ==
    /\ last.op = "data_ready"
    /\ SafeSaveFailed(last)
    /\ last.saves > 3
    /\ last.run \in RunIds
    /\ runs[last.run].status = StatusProcessing

\* C17: in every persisted state a run owns ReductionLocation rows only if
\* its persisted status is Completed.
C17_LocationsOnlyOfCompletedRuns ==
    \A id \in RunIds :
        ReductionLocationsOf(id) > 0 => runs[id].status = StatusCompleted

\* C18: a run created by data_ready owns exactly one DataLocation, holding
\* the data path of its event, unless the event ended between the write of
\* the run and the write of the location (the store rejected the latter);
\* only then does a run without DataLocation exist. No lifecycle handler
\* creates, changes or deletes a DataLocation.
C18_OneDataLocationPerRun ==
    /\ [](\A id \in RunIds : DataLocationsOf(id) <= 1)
    /\ [](\A k \in 1..Len(dataLocs) :
              /\ dataLocs[k].run \in RunIds
              /\ dataLocs[k].file_path = DataFileOf[runs[dataLocs[k].run].inst])
    /\ [][ /\ last'.op # "data_ready" => dataLocs' = dataLocs
           /\ last'.op = "data_ready" =>
                 IF last'.run # 0 /\ ~(SafeSaveFailed(last') /\ last'.saves = 2)
                 THEN dataLocs' = Append(dataLocs,
                          [run |-> last'.run,
                           file_path |-> DataFileOf[runs'[last'.run].inst]])
                 ELSE dataLocs' = dataLocs
         ]_vars

\* a lifecycle handler acted on a run that owns its DataLocation
C18_Witness ==
    /\ last.op \in {"reduction_started", "reduction_complete",
                    "reduction_skipped", "reduction_error"}
    /\ last.fault = NoFault
    /\ last.run \in RunIds
    /\ DataLocationsOf(last.run) = 1

\* ------------------------------------------ claims about concurrent workers
\* the worker tried to insert its run
Inserting(w) == workers[w].insert # "none"

SameIdentity(v, w) ==
    /\ workers[v].message.instrument = workers[w].message.instrument
    /\ workers[v].message.run_number = workers[w].message.run_number
    /\ workers[v].message.run_version = workers[w].message.run_version

SnapshotIds(call) == [i \in 1..Len(call.snapshot) |-> call.snapshot[i].id]

\* the call repeats the inputs of the call before it
SameCall(a, b) ==
    /\ a.op = b.op
    /\ a.run_number = b.run_number
    /\ a.experiment_reference = b.experiment_reference
    /\ a.tracks_script = b.tracks_script
    /\ a.force_update = b.force_update
    /\ a.scoped = b.scoped
    /\ a.standard_vars = b.standard_vars
    /\ a.advanced_vars = b.advanced_vars
    /\ a.helped = b.helped

\* C19: a call of the resolver that repeats the inputs of the call before it
\* returns the same snapshot rows and neither creates nor modifies a stored
\* InstrumentVariable row.
C19_ResolveIsIdempotent ==
    [][ (resolved.op # "none" /\ resolved.fault = NoFault /\ SameCall(resolved', resolved)) =>
            /\ resolved'.fault = NoFault
            /\ SnapshotIds(resolved') = SnapshotIds(resolved)
            /\ ivars' = ivars
      ]_vars

\* the arguments of a call as the resolver received them
ArgumentsOf(call) ==
    [standard_vars |-> call.standard_vars, advanced_vars |-> call.advanced_vars,
     variable_help |-> IF call.helped THEN HelpForA ELSE NoHelp]

\* the k-th variable a call resolved: standard variables first
VariableOf(call, k) ==
    IF k <= Len(call.standard_vars)
    THEN [name |-> call.standard_vars[k].name, value |-> call.standard_vars[k].value,
          dict_name |-> "standard_vars"]
    ELSE [name |-> call.advanced_vars[k - Len(call.standard_vars)].name,
          value |-> call.advanced_vars[k - Len(call.standard_vars)].value,
          dict_name |-> "advanced_vars"]

\* C20: when the row matched for a variable tracks the script, the value
\* resolved from the script differs from the stored one and the run number N
\* is not the row's start_run, the resolver inserts a new row with
\* start_run = N that holds the new value, type and help text and is
\* otherwise the matched row's copy, returns the new row in the snapshot, and
\* leaves every field of the matched row as stored.
C20_CopyOnWrite ==
    [][ resolved'.fault = NoFault =>
          \A k \in 1..Len(resolved'.snapshot) :
              LET entry == resolved'.snapshot[k]
                  var == VariableOf(resolved', k)
                  N == resolved'.run_number
              IN  ( /\ entry.matched \in 1..Len(ivars)
                    /\ ivars[entry.matched].tracks_script
                    /\ script_value_of(var.value) # ivars[entry.matched].value
                    /\ ivars[entry.matched].start_run # N ) =>
                      /\ entry.id \in (Len(ivars) + 1)..Len(ivars')
                      /\ ivars'[entry.id] =
                            [ivars[entry.matched] EXCEPT
                                !.start_run = N,
                                !.value = script_value_of(var.value),
                                !.type = get_type_string(var.value),
                                !.help_text = get_help_text(var.dict_name, var.name,
                                                            ArgumentsOf(resolved'))]
                      /\ ivars'[entry.matched] = ivars[entry.matched]
      ]_vars

\* variable a, stored for run 100 with value 1, was resolved for run 101 with
\* the script's value 2: the snapshot holds a new row, the old one is kept
C20_Witness ==
    /\ resolved.fault = NoFault
    /\ \E k \in 1..Len(resolved.snapshot) :
          LET entry == resolved.snapshot[k]
          IN  /\ entry.matched # 0
              /\ entry.id # entry.matched
              /\ ivars[entry.matched].tracks_script
              /\ ivars[entry.matched].start_run # resolved.run_number
              /\ ivars[entry.id].start_run = resolved.run_number
              /\ ivars[entry.matched].value # ivars[entry.id].value
              /\ ivars[entry.id].value = script_value_of(VariableOf(resolved, k).value)

\* the stored rows of a name that are scoped to experiment R
ExperimentRows(store, name, R) ==
    {i \in 1..Len(store) : store[i].name = name /\ R # Null
                             /\ store[i].experiment_reference = R}

\* the stored rows of a name that are scoped to a range of runs holding run N
RunRangeRows(store, name, N) ==
    {i \in 1..Len(store) : /\ store[i].name = name
                            /\ store[i].experiment_reference = Null
                            /\ store[i].start_run # Null
                            /\ store[i].start_run <= N}

\* the number of variables a call was asked to resolve
Asked(call) == Len(call.standard_vars) + Len(call.advanced_vars)

\* C21: when create_run_variables resolves a variable for a run of experiment
\* R and the table holds both a row of that name scoped to R and rows of that
\* name scoped to run ranges with start_run <= run number, the call returns
\* and the row matched for the snapshot is the one scoped to R.
C21_ExperimentRowWins ==
    [][ resolved'.op = "create_run_variables" =>
          \A k \in 1..Asked(resolved') :
              LET name == VariableOf(resolved', k).name
                  scoped == ExperimentRows(ivars, name, resolved'.experiment_reference)
                  ranged == RunRangeRows(ivars, name, resolved'.run_number)
              IN  (scoped # {} /\ ranged # {}) =>
                      /\ resolved'.fault = NoFault
                      /\ resolved'.snapshot[k].matched \in scoped
      ]_vars

\* the rows of a set with the greatest start_run
Latest(store, rows) == {i \in rows : \A j \in rows : store[j].start_run <= store[i].start_run}

\* C22: when the table holds no row of a name scoped to an experiment,
\* create_run_variables returns and matches the row of that name with the
\* greatest start_run not above the run number, however many such rows are
\* stored; it never matches a row with a greater start_run, and it matches
\* no row when there is no candidate.
C22_LatestRunRangeRow ==
    [][ resolved'.op = "create_run_variables" =>
          \A k \in 1..Asked(resolved') :
              LET name == VariableOf(resolved', k).name
                  scoped == {i \in 1..Len(ivars) : /\ ivars[i].name = name
                                                    /\ ivars[i].experiment_reference # Null}
                  ranged == RunRangeRows(ivars, name, resolved'.run_number)
              IN  scoped = {} =>
                      /\ resolved'.fault = NoFault
                      /\ ranged # {} => resolved'.snapshot[k].matched \in Latest(ivars, ranged)
                      /\ ranged = {} => resolved'.snapshot[k].matched = 0
      ]_vars

\* the rows a call added to the table
AddedBy(call, before) == {k \in 1..Len(call.snapshot) : call.snapshot[k].id > Len(before)}

\* C23: when the row matched for a variable does not track the script and
\* the caller does not force an update, the resolver returns that row and
\* leaves it as stored, value, type, help text and start_run included, also
\* when the script's value differs; no row is added for the variable.
C23_FixedRowReused ==
    [][ (resolved'.fault = NoFault /\ ~resolved'.force_update) =>
          \A k \in 1..Len(resolved'.snapshot) :
              LET entry == resolved'.snapshot[k]
              IN  (entry.matched # 0 /\ ~ivars[entry.matched].tracks_script) =>
                      /\ entry.id = entry.matched
                      /\ ivars'[entry.id] = ivars[entry.matched]
                      /\ Len(ivars') = Len(ivars) + Cardinality(AddedBy(resolved', ivars))
      ]_vars

\* a row that does not track the script was returned with a value other than
\* the script's
C23_Witness ==
    /\ resolved.fault = NoFault
    /\ ~resolved.force_update
    /\ \E k \in 1..Len(resolved.snapshot) :
          LET entry == resolved.snapshot[k]
          IN  /\ entry.id = entry.matched
              /\ ~ivars[entry.id].tracks_script
              /\ ivars[entry.id].value # script_value_of(VariableOf(resolved, k).value)

\* the experiment reference the resolver received: create_run_variables hands
\* none on
GivenReference(call) ==
    IF call.op = "create_run_variables" THEN Null ELSE call.experiment_reference

\* C25: when no stored row matches a variable, the resolver adds exactly one
\* row for it, holding the value, type and help text resolved from the
\* script and the caller's tracks_script, scoped to the experiment reference
\* when the resolver received one and to start_run = run number otherwise.
C25_CreatedRowScoped ==
    [][ resolved'.fault = NoFault =>
          /\ Len(ivars') = Len(ivars) + Cardinality(AddedBy(resolved', ivars))
          /\ \A k \in 1..Len(resolved'.snapshot) :
                LET entry == resolved'.snapshot[k]
                    var == VariableOf(resolved', k)
                    R == GivenReference(resolved')
                IN  entry.matched = 0 =>
                      /\ entry.id \in (Len(ivars) + 1)..Len(ivars')
                      /\ \A j \in 1..Len(resolved'.snapshot) :
                            resolved'.snapshot[j].id = entry.id => j = k
                      /\ ivars'[entry.id].name = var.name
                      /\ ivars'[entry.id].value = script_value_of(var.value)
                      /\ ivars'[entry.id].type = get_type_string(var.value)
                      /\ ivars'[entry.id].tracks_script = resolved'.tracks_script
                      /\ IF R \notin {Null, 0}
                         THEN ivars'[entry.id].experiment_reference = R
                         ELSE /\ ivars'[entry.id].start_run = resolved'.run_number
                              /\ ivars'[entry.id].experiment_reference = Null
      ]_vars

\* C26: after every sequence of calls of the resolver the table holds at most
\* one row per name and experiment reference among the rows scoped to an
\* experiment.
C26_OneRowPerExperiment ==
    \A name \in VariableNames, R \in ExperimentReferences :
        Cardinality(ExperimentRows(ivars, name, R)) <= 1

\* the value, type and help text the script gives the k-th variable of a call
FromScript(call, k) ==
    LET var == VariableOf(call, k)
    IN  [value |-> script_value_of(var.value), type |-> get_type_string(var.value),
         help_text |-> get_help_text(var.dict_name, var.name, ArgumentsOf(call))]

\* the value, type and help text of a row
Held(row) == [value |-> row.value, type |-> row.type, help_text |-> row.help_text]

\* C29: when the row matched for a variable tracks the script or the update
\* is forced, and the run number is the row's start_run, a difference in
\* value, type or help text is written to that row: the call adds no row for
\* the variable, returns the matched row, and the row differs from what was
\* stored in the new value, type and help text only. When nothing differs
\* the row stays as stored.
C29_UpdateInPlace ==
    [][ resolved'.fault = NoFault =>
          \A k \in 1..Len(resolved'.snapshot) :
              LET entry == resolved'.snapshot[k]
                  new == FromScript(resolved', k)
                  N == resolved'.run_number
              IN  ( /\ entry.matched # 0
                    /\ follows_script(ivars[entry.matched], resolved'.force_update) ) =>
                      /\ ivars[entry.matched].start_run = N =>
                            /\ entry.id = entry.matched
                            /\ Len(ivars') = Len(ivars) + Cardinality(AddedBy(resolved', ivars))
                            /\ ivars'[entry.id] =
                                  [ivars[entry.matched] EXCEPT !.value = new.value,
                                                               !.type = new.type,
                                                               !.help_text = new.help_text]
                      /\ Held(ivars[entry.matched]) = new =>
                            /\ entry.id = entry.matched
                            /\ ivars'[entry.id] = ivars[entry.matched]
      ]_vars

\* the row stored for run 100 with value 1 was matched by the first call,
\* made for run 100, and holds the script's value 2 now
C29_Witness ==
    /\ resolved.calls = 1
    /\ resolved.fault = NoFault
    /\ resolved.run_number = 100
    /\ resolved.snapshot = <<[id |-> 1, matched |-> 1]>>
    /\ ivars = <<[StoredForRun EXCEPT !.value = <<"2">>]>>
    /\ FromScript(resolved, 1).value = <<"2">>

\* C30 as stated: a row returned in the snapshot of a call keeps its value,
\* type and help text under every later call, a call for the same run
\* number with a changed script value included.
C30_HistoryKept ==
    [][ resolved.fault = NoFault =>
          \A k \in 1..Len(resolved.snapshot) :
              Held(ivars'[resolved.snapshot[k].id]) = Held(ivars[resolved.snapshot[k].id])
      ]_vars

\* C30, amended: a stored row is left exactly as it is by every call made
\* for a run number other than the row's start_run; only a call for the
\* row's own start_run can rewrite it.
C30_HistoryKeptAcrossRuns ==
    [][ \A i \in 1..Len(ivars) :
            ivars[i].start_run # resolved'.run_number => ivars'[i] = ivars[i]
      ]_vars

\* the row run 100 left is as it was after a call for run 101 that matched
\* it and resolved another value
C30_Witness ==
    /\ resolved.fault = NoFault
    /\ resolved.run_number = 101
    /\ Len(ivars) >= 2
    /\ ivars[1] = StoredForRun
    /\ resolved.snapshot[1] = [id |-> Len(ivars), matched |-> 1]
    /\ ivars[Len(ivars)].value # StoredForRun.value

DictNames == {"standard_vars", "advanced_vars"}

\* the message's arguments without the names the script does not declare
DeclaredOnly(message, module) ==
    [dict_name \in DictNames |->
        [message[dict_name] EXCEPT
            !.items = SelectSeq(@, LAMBDA item : item.name \in Keys(module[dict_name]))]]

\* C24: merge_arguments returns also when the message holds a name the
\* script does not declare; the merged arguments hold the declared names
\* only, each with the value it has when the undeclared names are left out
\* of the message.
C24_UndeclaredNameIgnored ==
    merged.pc = "returned" =>
        /\ merged.fault = NoFault
        /\ \A dict_name \in DictNames :
              Keys(merged.reduction_args[dict_name]) = Keys(merged.module[dict_name])
        /\ merged.reduction_args =
              merge_arguments(DeclaredOnly(merged.message, merged.module),
                              merged.module).reduction_args

\* C27: in the arguments merge_arguments returns, every name the script
\* declares has the value the message gives it in the same dict, read as the
\* type of the script's value, and the script's value when the message gives
\* none; a dict of the message changes no value of the other dict; the
\* script's own dicts are as they were, whether the call returns or raises.
C27_MessageValueWins ==
    merged.pc = "returned" =>
        /\ merged.left = merged.module
        /\ merged.fault = NoFault =>
              \A dict_name \in DictNames :
                  LET declared == merged.module[dict_name]
                      given == merged.message[dict_name]
                      result == merged.reduction_args[dict_name]
                  IN  /\ Len(result) = Len(declared)
                      /\ \A i \in 1..Len(declared) :
                            /\ result[i].name = declared[i].name
                            /\ result[i].value =
                                  IF given.present /\ declared[i].name \in Keys(given.items)
                                  THEN convert_variable_to_type(
                                           GetItem(given.items, declared[i].name),
                                           get_type_string(declared[i].value))
                                  ELSE declared[i].value

\* the message's value of standard variable a replaced the script's, and
\* advanced variable b kept the script's value
C27_Witness ==
    /\ merged.pc = "returned"
    /\ merged.fault = NoFault
    /\ merged.module.standard_vars = <<Item("a", One)>>
    /\ merged.module.advanced_vars = <<Item("b", One)>>
    /\ merged.message.standard_vars = GivenDict(<<Item("a", TextTwo)>>)
    /\ merged.reduction_args.standard_vars = <<Item("a", Two)>>
    /\ merged.reduction_args.advanced_vars = <<Item("b", One)>>

\* C28: a run number is reported unsuitable for resubmission, with a reason
\* that is not empty, in two cases only: no previous run of it exists ("hasn't
\* been ran by autoreduction yet"), or some previous version of it is Queued
\* ("is already queued"); in every other case it is reported suitable with
\* the empty reason.
C28_ReasonToAvoidReRun ==
    rerun.pc = "returned" =>
        LET previous == rerun.matching_previous_runs
            queued == {i \in 1..Len(previous) : previous[i].status = StatusQueued}
        IN  /\ previous = <<>> =>
                  /\ ~rerun.run_suitable
                  /\ rerun.reason = Reason("hasn't been ran by autoreduction yet.",
                                           rerun.run_number)
            /\ queued # {} =>
                  /\ ~rerun.run_suitable
                  /\ rerun.reason = Reason("is already queued to run", rerun.run_number)
            /\ (previous # <<>> /\ queued = {}) =>
                  /\ rerun.run_suitable
                  /\ rerun.reason = NoReason
            /\ ~rerun.run_suitable => rerun.reason.text # ""

\* a run whose most recent version is Completed while an older version is
\* still Queued was reported unsuitable
C28_Witness ==
    /\ rerun.pc = "returned"
    /\ Len(rerun.matching_previous_runs) >= 2
    /\ rerun.matching_previous_runs[1].status = StatusCompleted
    /\ \E i \in 2..Len(rerun.matching_previous_runs) :
          rerun.matching_previous_runs[i].status = StatusQueued
    /\ ~rerun.run_suitable
    /\ rerun.reason.text = "is already queued to run"

\* C31: a call of the resolver that returns gives one row per variable the
\* arguments declare, in order: the standard variables as declared, then the
\* advanced ones, each row carrying its variable's name, and distinct rows
\* for distinct variables. The snapshot is empty exactly when both dicts are
\* empty, and then no row is created.
C31_SnapshotInDeclarationOrder ==
    [][ resolved'.fault = NoFault =>
          /\ Len(resolved'.snapshot) = Asked(resolved')
          /\ \A k \in 1..Len(resolved'.snapshot) :
                /\ resolved'.snapshot[k].id \in 1..Len(ivars')
                /\ ivars'[resolved'.snapshot[k].id].name = VariableOf(resolved', k).name
                /\ \A j \in 1..Len(resolved'.snapshot) :
                      resolved'.snapshot[j].id = resolved'.snapshot[k].id => j = k
          /\ (resolved'.snapshot = <<>>) <=>
                (resolved'.standard_vars = <<>> /\ resolved'.advanced_vars = <<>>)
          /\ resolved'.snapshot = <<>> => ivars' = ivars
      ]_vars

\* a call declaring standard variables b, a in that order returned the row
\* of b before the row of a
C31_Witness ==
    /\ resolved.fault = NoFault
    /\ Len(resolved.snapshot) = 2
    /\ Len(resolved.standard_vars) = 2
    /\ ivars[resolved.snapshot[1].id].name = "b"
    /\ ivars[resolved.snapshot[2].id].name = "a"

\* C32: from every reachable store, the get-and-activate step of data_ready
\* leaves an instrument of the event's name that exists and is active; it
\* does not save an instrument that was active already, leaves every other
\* instrument as it was and changes no is_paused flag. Every data_ready
\* event leaves the instrument of the run it created active and the
\* is_paused flags of the stored instruments as they were.
C32_InstrumentActivated ==
    /\ [](\A name \in InstrumentNames :
            LET c == get_and_activate_db_inst(Ctx, name)
            IN  /\ c.insts[name].exists
                /\ c.insts[name].is_active
                /\ (instruments[name].exists /\ instruments[name].is_active) =>
                      (c.inst_saves = 0 /\ c.insts = instruments)
                /\ \A other \in InstrumentNames :
                      /\ other # name => c.insts[other] = instruments[other]
                      /\ instruments[other].exists =>
                            c.insts[other].is_paused = instruments[other].is_paused)
    /\ [][ last'.op = "data_ready" =>
              /\ \A name \in InstrumentNames :
                    instruments[name].exists =>
                        /\ instruments'[name].exists
                        /\ instruments'[name].is_paused = instruments[name].is_paused
              /\ last'.run # 0 =>
                    /\ instruments'[runs'[last'.run].inst].exists
                    /\ instruments'[runs'[last'.run].inst].is_active
       ]_vars

\* a data_ready event created a run for an instrument that was stored
\* inactive and paused: it is active now and still paused
C32_Witness ==
    /\ last.op = "data_ready"
    /\ last.run # 0
    /\ instruments[runs[last.run].inst].is_active
    /\ instruments[runs[last.run].inst].is_paused

\* the experiment numbers of the runs a request relates to
ExperimentsOf(call) == {r.rb : r \in related_runs_of(call.table, call.run_numbers)}

\* C33: run_confirmation posts nothing to the job submission service and
\* returns an error in the context when the run list cannot be parsed, when
\* more runs are requested than the user's limit (500 for a superuser, 50
\* for staff, 20 otherwise), or when the requested runs belong to more than
\* one experiment number.
C33_RejectedBeforeSubmission ==
    confirmation.pc = "returned" =>
        LET unparsed == confirmation.parsed = SyntaxError \/ confirmation.run_numbers = <<>>
            limit == IF confirmation.user.is_superuser THEN 500
                     ELSE IF confirmation.user.is_staff THEN 50 ELSE 20
            too_many == Len(confirmation.run_numbers) > limit
            spanning == Cardinality(ExperimentsOf(confirmation)) > 1
        IN  (unparsed \/ too_many \/ spanning) =>
                /\ confirmation.posted = <<>>
                /\ confirmation.error.text # ""
                /\ confirmation.runs = <<>>

\* a member of staff asked for 51 runs and was refused before any post
C33_Witness ==
    /\ confirmation.pc = "returned"
    /\ confirmation.user = [is_superuser |-> FALSE, is_staff |-> TRUE]
    /\ Len(confirmation.run_numbers) = 51
    /\ confirmation.failing = "none"
    /\ confirmation.posted = <<>>
    /\ confirmation.error =
          ContextError("runs were requested, but only ... can be queued at a time")

\* the requested run numbers find_reason_to_avoid_re_run reports unsuitable
Unsuitable(call) ==
    {i \in 1..Len(call.run_numbers) :
        LET related == related_runs_of(call.table, call.run_numbers)
            matching == ByVersionDescending({r \in related :
                                                r.run_number = call.run_numbers[i]})
        IN  ~find_reason_to_avoid_re_run(matching, call.run_numbers[i]).run_suitable}

\* C34: when one of the requested run numbers is unsuitable for a re-run (it
\* was never run, or one of its versions is Queued), run_confirmation posts
\* no request to the job submission service.
C34_UnsuitableRunsNotSubmitted ==
    confirmation.pc = "returned" =>
        (Unsuitable(confirmation) # {} => confirmation.posted = <<>>)

\* --------------------------------- claims about configure_new_runs_post
KeyedRows(key) == {id \in 1..Len(argsTable) : argsTable[id][key] # Null}
OneRowPerKey(key) ==
    \A id \in KeyedRows(key), other \in KeyedRows(key) :
        (/\ argsTable[id].instrument = argsTable[other].instrument
         /\ argsTable[id][key] = argsTable[other][key]) => id = other

\* C35: after any interleaving of configure_new_runs_post requests the table
\* holds at most one ReductionArguments row per (instrument, start_run) and at
\* most one per (instrument, experiment_reference); when a request has written,
\* every row of its key holds that request's arguments; a request giving
\* neither a run start nor an experiment reference writes nothing.
C35_OneArgumentsRowPerKey ==
    /\ [](OneRowPerKey("start_run") /\ OneRowPerKey("experiment_reference"))
    /\ [][\A client \in Clients :
            /\ Write(client) =>
                  \A id \in 1..Len(argsTable') :
                      (/\ argsTable'[id].instrument = posting[client].instrument
                       /\ argsTable'[id][posting[client].kwargs.key]
                              = posting[client].kwargs.value)
                      => argsTable'[id].raw = posting[client].arguments_json
            /\ (/\ Lookup(client)
                /\ falsy(int_or_none(posting[client].run_start))
                /\ falsy(int_or_none(posting[client].experiment_reference_number)))
               => (posting'[client].pc = "done" /\ argsTable' = argsTable)]_vars

\* ------------------------------------------- claims about the run filter
\* C36: every run number that validate_run_number accepts is filtered by
\* filter_run_number without an exception: each comma-separated piece taken
\* as a range has a start and an end.
C36_AcceptedValueIsFiltered ==
    (filtered.pc = "filtered" /\ filtered.value # <<>>)
        => /\ filtered.fault = NoFault
           /\ \A i \in 1..Len(filtered.query) :
                  filtered.query[i].lookup = "range" => Len(filtered.query[i].values) = 2

\* ------------------------------------------------ claims about the times
\* C37: in every state a run whose status is Processing has a start time and
\* no finish time, and a run with a finish time is Completed, Error or
\* Skipped.
C37_TimesFollowStatus ==
    \A id \in RunIds :
        /\ runs[id].status = StatusProcessing
              => (runs[id].started # 0 /\ runs[id].finished = 0)
        /\ runs[id].finished # 0 => runs[id].status \in Terminal

\* C38: the warning recorded on the message for an invalid rb number does not
\* decide the outcome: when the collaborator launches and returns the message
\* with the text it was given, the run of data_ready with an invalid rb number
\* ends Completed, as it does with a valid one.
C38_WarningDoesNotDecideOutcome ==
    (/\ last.op = "data_ready"
     /\ last.run # 0
     /\ last.fault = NoFault
     /\ last.asked.process_finished = Yes
     /\ last.asked.text = (IF last.asked.rb_valid = No THEN RbWarning ELSE NoText))
        => runs[last.run].status = StatusCompleted

====
